---- MODULE Spec2Model ----
(***************************************************************************)
(* A model of kitty/line.c: one row of the terminal grid (parallel CPU and *)
(* GPU cell arrays), its text/ANSI serializers, SGR differencing, URL      *)
(* detection, marking and the per-cell accessors and mutators.             *)
(*                                                                         *)
(* Text is modelled as sequences of code points (integers), exactly as the *)
(* char_type buffers of the source.  Columns are 0-based as in the source: *)
(* cell arrays are functions over 0..xnum-1.                               *)
(***************************************************************************)
EXTENDS Integers, Sequences, FiniteSets, TLC

VARIABLES line,        \* the Line: [xnum, cpu_cells, gpu_cells, prompt_kind]
          text_cache,  \* the TextCache: index -> [chars, mcd]
          flatbuf,     \* global_unicode_in_range_buf: [capacity, alloc]
          pc,          \* "idle": no call in progress; "done": a call returned
          op,          \* name of the operation that returned last
          args,        \* its arguments
          ret          \* its result

vars == <<line, text_cache, flatbuf, pc, op, args, ret>>

\* ------------------------------------------------------------------------
\* Code points and small sequence helpers
\* ------------------------------------------------------------------------

\* The code point of a one-character literal used by the source.
Ord(c) ==
    CASE c = "0" -> 48 [] c = "1" -> 49 [] c = "2" -> 50 [] c = "3" -> 51
      [] c = "4" -> 52 [] c = "5" -> 53 [] c = "6" -> 54 [] c = "7" -> 55
      [] c = "8" -> 56 [] c = "9" -> 57
      [] c = "ESC" -> 27 [] c = "BEL" -> 7 [] c = "\t" -> 9 [] c = "\n" -> 10
      [] c = " " -> 32 [] c = ";" -> 59 [] c = ":" -> 58 [] c = "/" -> 47
      [] c = "[" -> 91 [] c = "]" -> 93 [] c = "\\" -> 92 [] c = "=" -> 61
      [] c = "." -> 46 [] c = ")" -> 41
      [] c = "m" -> 109 [] c = "w" -> 119 [] c = "s" -> 115 [] c = "S" -> 83
      [] c = "i" -> 105 [] c = "d" -> 100 [] c = "k" -> 107
      [] c = "A" -> 65 [] c = "C" -> 67
      [] c = "a" -> 97 [] c = "b" -> 98 [] c = "h" -> 104 [] c = "u" -> 117
      [] c = "c" -> 99 [] c = "t" -> 116 [] c = "p" -> 112
      [] c = "x" -> 120 [] c = "y" -> 121 [] c = "z" -> 122

\* A C string literal, given as a tuple of one-character strings.
Str(t) == [i \in 1..Len(t) |-> Ord(t[i])]

Min(a, b) == IF a < b THEN a ELSE b
Max(a, b) == IF a > b THEN a ELSE b

\* Decimal digits of n, as printf("%u") and nonnegative_integer_as_utf32 write them.
RECURSIVE Dec(_)
Dec(n) == IF n < 10 THEN <<48 + n>> ELSE Dec(n \div 10) \o <<48 + (n % 10)>>

\* seq with index i (1-based) set to v; i may be Len(seq)+1 (the slot after the end).
SetAt(seq, i, v) ==
    IF i = Len(seq) + 1 THEN Append(seq, v) ELSE [seq EXCEPT ![i] = v]

\* Does pat occur in s starting at 1-based index i ?
OccursAt(s, pat, i) ==
    /\ i >= 1
    /\ i + Len(pat) - 1 <= Len(s)
    /\ \A j \in 1..Len(pat) : s[i + j - 1] = pat[j]

Occurrences(s, pat) == {i \in 1..Len(s) : OccursAt(s, pat, i)}

\* The pieces of s between separators sep (as a sequence of sequences).
RECURSIVE SplitOn(_, _)
SplitOn(s, sep) ==
    IF \A i \in 1..Len(s) : s[i] # sep THEN <<s>>
    ELSE LET k == CHOOSE i \in 1..Len(s) :
                      s[i] = sep /\ \A j \in 1..(i-1) : s[j] # sep
         IN  <<SubSeq(s, 1, k - 1)>> \o SplitOn(SubSeq(s, k + 1, Len(s)), sep)

SeqToSet(s) == {s[i] : i \in 1..Len(s)}

\* ------------------------------------------------------------------------
\* GPU cells and the SGR delta encoder
\* ------------------------------------------------------------------------

\* CellAttrs bit fields that line.c reads or writes.
Attrs(bold, dim, italic, reverse, strike, decoration, mark) ==
    [bold |-> bold, dim |-> dim, italic |-> italic, reverse |-> reverse,
     strike |-> strike, decoration |-> decoration, mark |-> mark]

GPUCell(fg, bg, dfg, attrs) ==
    [fg |-> fg, bg |-> bg, decoration_fg |-> dfg, attrs |-> attrs]

\* static const GPUCell blank_cell = { 0 }
blank_cell == GPUCell(0, 0, 0, Attrs(FALSE, FALSE, FALSE, FALSE, FALSE, 0, 0))

\* A color_type value: the low byte is the palette kind, the rest the payload.
IndexedColor(n) == n * 256 + 1
TrueColor(r, g, b) == ((r * 256 + g) * 256 + b) * 256 + 2

DECORATION_FG_CODE == 58

\* color_as_sgr: the text snprintf produces for one colour change.
color_as_sgr(val, simple_code, aix_code, complex_code) ==
    LET kind == val % 256
        v    == val \div 256
    IN  CASE kind = 1 ->
               IF v < 16 /\ simple_code # 0
               THEN Dec(IF v < 8 THEN simple_code + v ELSE aix_code + (v - 8)) \o Str(<<";">>)
               ELSE Dec(complex_code) \o Str(<<":", "5", ":">>) \o Dec(v) \o Str(<<";">>)
          [] kind = 2 ->
               Dec(complex_code) \o Str(<<":", "2", ":">>)
                 \o Dec((val \div 16777216) % 256) \o Str(<<":">>)
                 \o Dec((val \div 65536) % 256) \o Str(<<":">>)
                 \o Dec((val \div 256) % 256) \o Str(<<";">>)
          [] OTHER -> Dec(complex_code + 1) \o Str(<<";">>)

decoration_as_sgr(decoration) ==
    CASE decoration = 1 -> Str(<<"4", ";">>)
      [] decoration = 2 -> Str(<<"4", ":", "2", ";">>)
      [] decoration = 3 -> Str(<<"4", ":", "3", ";">>)
      [] decoration = 4 -> Str(<<"4", ":", "4">>)
      [] decoration = 5 -> Str(<<"4", ":", "5">>)
      [] OTHER -> Str(<<"2", "4", ";">>)

SgrBufSize == 128

\* The macro P(s) of cell_as_sgr: append s when it fits in what is left of buf.
SgrP(buf, s) == IF SgrBufSize - Len(buf) - 2 > Len(s) THEN buf \o s ELSE buf

\* if (cond) P(s)
SgrIf(cond, buf, s) == IF cond THEN SgrP(buf, s) ELSE buf

\* if (cond) p += color_as_sgr(p, SZ, ...)
SgrColorIf(cond, buf, s) == IF cond THEN buf \o s ELSE buf

\* The intensity codes without the reset code 22.
intensity_as_sgr_without_reset(CA, PA) ==
    IF CA.bold # PA.bold \/ CA.dim # PA.dim
    THEN SgrIf(CA.dim /\ ~PA.dim, SgrIf(CA.bold /\ ~PA.bold, <<>>, Str(<<"1", ";">>)),
               Str(<<"2", ";">>))
    ELSE <<>>

\* The intensity codes: bold and dim share the reset code 22.
intensity_as_sgr(CA, PA) ==
    IF CA.bold # PA.bold \/ CA.dim # PA.dim
    THEN IF CA.bold /\ CA.dim
         THEN SgrIf(~PA.dim, SgrIf(~PA.bold, <<>>, Str(<<"1", ";">>)), Str(<<"2", ";">>))
         ELSE SgrIf(CA.dim,
                    SgrIf(CA.bold, SgrP(<<>>, Str(<<"2", "2", ";">>)), Str(<<"1", ";">>)),
                    Str(<<"2", ";">>))
    ELSE <<>>

\* if (p > buf) *(p - 1) = 0: the last character written is dropped.
strip_last(buf) == IF Len(buf) > 0 THEN SubSeq(buf, 1, Len(buf) - 1) ELSE buf

\* The attribute toggles of cell_as_sgr: intensity, italic, reverse, strike.
attrs_as_sgr(CA, PA) ==
    SgrIf(CA.strike # PA.strike,
      SgrIf(CA.reverse # PA.reverse,
        SgrIf(CA.italic # PA.italic,
          intensity_as_sgr(CA, PA),
          IF CA.italic THEN Str(<<"3", ";">>) ELSE Str(<<"2", "3", ";">>)),
        IF CA.reverse THEN Str(<<"7", ";">>) ELSE Str(<<"2", "7", ";">>)),
      IF CA.strike THEN Str(<<"9", ";">>) ELSE Str(<<"2", "9", ";">>))

\* cell_as_sgr: the SGR codes that turn prev's rendition into cell's.
cell_as_sgr(cell, prev) ==
    strip_last(
      SgrIf(cell.attrs.decoration # prev.attrs.decoration,
        SgrColorIf(cell.decoration_fg # prev.decoration_fg,
          SgrColorIf(cell.bg # prev.bg,
            SgrColorIf(cell.fg # prev.fg,
              attrs_as_sgr(cell.attrs, prev.attrs),
              color_as_sgr(cell.fg, 30, 90, 38)),
            color_as_sgr(cell.bg, 40, 100, 48)),
          color_as_sgr(cell.decoration_fg, 0, 0, DECORATION_FG_CODE)),
        decoration_as_sgr(cell.attrs.decoration)))

\* ------------------------------------------------------------------------
\* CPU cells, the text cache and the helpers line.c takes from its headers
\* ------------------------------------------------------------------------

CPUCell(ch_or_idx, ch_is_idx, is_multicell, x, y, hyperlink_id, wrapped) ==
    [ch_or_idx |-> ch_or_idx, ch_is_idx |-> ch_is_idx, is_multicell |-> is_multicell,
     x |-> x, y |-> y, hyperlink_id |-> hyperlink_id, next_char_was_wrapped |-> wrapped]

\* A cell holding the single code point ch (c->val = 0; c->ch_or_idx = ch).
PlainCell(ch) == CPUCell(ch, FALSE, FALSE, 0, 0, 0, FALSE)

\* A cell whose text is entry idx of the text cache.
IndexedCell(idx) == CPUCell(idx, TRUE, FALSE, 0, 0, 0, FALSE)

\* One cell of a multi-cell glyph whose text is entry idx; (x, y) is its offset.
MultiCell(idx, x, y) == CPUCell(idx, TRUE, TRUE, x, y, 0, FALSE)

MultiCellData(width, scale, subscale) ==
    [width |-> width, scale |-> scale, subscale |-> subscale]

\* A text cache entry: the interned code points and, for a multi-cell glyph,
\* its MultiCellData.
CacheEntry(chars, mcd) == [chars |-> chars, mcd |-> mcd]

NoMcd == MultiCellData(1, 1, 0)

cell_is_char(c, ch) == ~c.ch_is_idx /\ c.ch_or_idx = ch

cell_has_text(c) == c.ch_is_idx \/ c.ch_or_idx # 0

cell_multicell_data(c, tc) == tc[c.ch_or_idx].mcd

\* ListOfChars filled by text_in_cell / tc_chars_at_index.
text_in_cell(c, tc) ==
    LET chars == IF c.ch_is_idx THEN tc[c.ch_or_idx].chars ELSE <<c.ch_or_idx>>
    IN  [chars |-> chars, count |-> Len(chars),
         is_multicell |-> c.is_multicell,
         is_topleft |-> c.is_multicell /\ c.x = 0 /\ c.y = 0]

\* Number of leading columns that are not trailing blanks.
RECURSIVE xlimit_from(_, _)
xlimit_from(self, xlimit) ==
    IF xlimit > 0 /\ ~cell_has_text(self.cpu_cells[xlimit - 1])
    THEN xlimit_from(self, xlimit - 1)
    ELSE xlimit

xlimit_for_line(self) == xlimit_from(self, self.xnum)

Line(cpu, gpu, prompt_kind) ==
    [xnum |-> Len(cpu), prompt_kind |-> prompt_kind,
     cpu_cells |-> [i \in 0..(Len(cpu) - 1) |-> cpu[i + 1]],
     gpu_cells |-> [i \in 0..(Len(gpu) - 1) |-> gpu[i + 1]]]

\* ------------------------------------------------------------------------
\* ANSI serialization
\* ------------------------------------------------------------------------

\* ANSIBuf: buf may hold stale code points at and after index len.
ANSIBuf(buf, len, active_hyperlink_id, hyperlink_pool) ==
    [buf |-> buf, len |-> len, active_hyperlink_id |-> active_hyperlink_id,
     hyperlink_pool |-> hyperlink_pool]

\* The hyperlink registry: present = FALSE is the NULL pool of ANSIBuf output = {0}.
HyperlinkPool(present, keys) == [present |-> present, keys |-> keys]

NullPool == HyperlinkPool(FALSE, <<>>)

\* What the buffer holds: indices [0, len).
Contents(output) == SubSeq(output.buf, 1, output.len)

\* output->buf[output->len++] = ch
W(output, ch) ==
    [output EXCEPT !.buf = SetAt(output.buf, output.len + 1, ch), !.len = output.len + 1]

RECURSIVE WAll(_, _)
WAll(output, s) == IF s = <<>> THEN output ELSE WAll(W(output, Head(s)), Tail(s))

nonnegative_integer_as_utf32(num, output) == WAll(output, Dec(num))

TEXT_SIZE_CODE == 66

\* if (output->buf[output->len - 1] == ':') output->len--
strip_colon(output) ==
    IF output.buf[output.len] = Ord(":") THEN [output EXCEPT !.len = output.len - 1]
    ELSE output

\* w(key); w('='); nonnegative_integer_as_utf32(num, output); w(':') when cond holds
write_size_field(cond, key, num, output) ==
    IF cond
    THEN W(nonnegative_integer_as_utf32(num, WAll(output, <<key, Ord("=")>>)), Ord(":"))
    ELSE output

write_multicell_ansi_prefix(mcd, output) ==
    W(strip_colon(
        write_size_field(mcd.subscale # 0, Ord("S"), mcd.subscale,
          write_size_field(mcd.scale > 1, Ord("s"), mcd.scale,
            write_size_field(mcd.width > 1, Ord("w"), mcd.width,
              WAll(output, Str(<<"ESC", "]">>) \o Dec(TEXT_SIZE_CODE) \o Str(<<";">>)))))),
      Ord(";"))

\* tc_chars_at_index_ansi: the cached code points, copied to the buffer.
tc_chars_at_index_ansi(tc, idx, output) == WAll(output, tc[idx].chars)

\* output->buf[output->len] = ch: len is not advanced.
put_beyond_len(output, ch) ==
    [output EXCEPT !.buf = SetAt(output.buf, output.len + 1, ch)]

\* text_in_cell_ansi: the buffer after the cell's text is written.  The value
\* n it returns is the growth of len.
text_in_cell_ansi(c, tc, output) ==
    IF c.ch_is_idx
    THEN IF ~c.is_multicell THEN tc_chars_at_index_ansi(tc, c.ch_or_idx, output)
         ELSE IF c.x # 0 \/ c.y # 0 THEN output
         ELSE put_beyond_len(tc_chars_at_index_ansi(tc, c.ch_or_idx,
                                 write_multicell_ansi_prefix(cell_multicell_data(c, tc), output)),
                             Ord("BEL"))
    ELSE W(output, c.ch_or_idx)

SgrMaxLen == 122

write_sgr(val, output) ==
    W(WAll(WAll(output, Str(<<"ESC", "[">>)), SubSeq(val, 1, Min(Len(val), SgrMaxLen))), Ord("m"))

\* Index of the first ':' of key (strstr(key, ":")); keys of the pool have one.
Partition(key) == CHOOSE i \in 1..Len(key) : key[i] = Ord(":") /\ \A j \in 1..(i - 1) : key[j] # Ord(":")

get_hyperlink_for_id(pool, hid) == IF hid \in DOMAIN pool.keys THEN <<pool.keys[hid]>> ELSE <<>>

\* The id part and the URI of a registry key "id:uri", split at its first ':'.
write_hyperlink_key(key, k, output) ==
    WAll(W(IF k # 1
           THEN WAll(WAll(W(output, Ord(";")), Str(<<"i", "d", "=">>)), SubSeq(key, 1, k - 1))
           ELSE W(output, Ord(";")),
           Ord(";")),
         SubSeq(key, k + 1, Len(key)))

\* write_hyperlink once the key is looked up: found is <<>> for key == NULL.
write_hyperlink_found(hid, found, output) ==
    WAll(IF hid = 0 \/ found = <<>>
         THEN WAll(WAll([output EXCEPT !.active_hyperlink_id = 0], Str(<<"ESC", "]", "8">>)),
                   Str(<<";", ";">>))
         ELSE write_hyperlink_key(found[1], Partition(found[1]),
                  WAll([output EXCEPT !.active_hyperlink_id = hid], Str(<<"ESC", "]", "8">>))),
         Str(<<"ESC", "\\">>))

write_hyperlink(hid, output) ==
    write_hyperlink_found(hid,
        IF hid # 0 THEN get_hyperlink_for_id(output.hyperlink_pool, hid) ELSE <<>>,
        output)

MarkMaxLen == 32

write_mark(mark, output) ==
    WAll(WAll(WAll(output, Str(<<"ESC", "]", "1", "3", "3", ";">>)),
              SubSeq(mark, 1, Min(Len(mark), MarkMaxLen))),
         Str(<<"ESC", "\\">>))

\* attrs.val & SGR_MASK: the attribute bits an SGR code can express.
sgr_attrs(a) == <<a.bold, a.dim, a.italic, a.reverse, a.strike, a.decoration>>

\* while (num_cells_to_skip_for_tab && pos + 1 < limit && cell_is_char(cpu_cells + pos + 1, ' '))
RECURSIVE skip_tab_cells(_, _, _, _)
skip_tab_cells(self, pos, num_cells_to_skip_for_tab, limit) ==
    IF num_cells_to_skip_for_tab # 0 /\ pos + 1 < limit
       /\ cell_is_char(self.cpu_cells[pos + 1], Ord(" "))
    THEN skip_tab_cells(self, pos + 1, num_cells_to_skip_for_tab - 1, limit)
    ELSE pos

\* hyperlink_changed comparing with "no link" instead of the active link.
hyperlink_changed_from_none(hid, output) ==
    output.hyperlink_pool.present /\ hid # 0

\* if (output->hyperlink_pool) { ... if (hid != output->active_hyperlink_id)
hyperlink_changed(hid, output) ==
    output.hyperlink_pool.present /\ hid # output.active_hyperlink_id

\* sgr_for_cell taking the delta from the blank cell instead of the previous one.
sgr_for_cell_from_blank(cell, prev) ==
    IF \/ sgr_attrs(cell.attrs) # sgr_attrs(blank_cell.attrs)
       \/ cell.fg # blank_cell.fg \/ cell.bg # blank_cell.bg
       \/ cell.decoration_fg # blank_cell.decoration_fg
    THEN cell_as_sgr(cell, blank_cell)
    ELSE <<>>

\* The delta written before a cell: empty when nothing an SGR code expresses
\* differs from the previous cell.
sgr_for_cell(cell, prev) ==
    IF \/ sgr_attrs(cell.attrs) # sgr_attrs(prev.attrs)
       \/ cell.fg # prev.fg \/ cell.bg # prev.bg
       \/ cell.decoration_fg # prev.decoration_fg
    THEN cell_as_sgr(cell, prev)
    ELSE <<>>

\* if (*sgr) WRITE_SGR(sgr)
line_as_ansi_sgr(st, sgr) ==
    IF sgr # <<>>
    THEN [st EXCEPT !.output = write_sgr(sgr, st.output), !.escape_code_written = TRUE]
    ELSE st

\* if (hid != output->active_hyperlink_id) WRITE_HYPERLINK(hid)
line_as_ansi_hyperlink(st, hid) ==
    IF hyperlink_changed(hid, st.output)
    THEN [st EXCEPT !.output = write_hyperlink(hid, st.output), !.escape_code_written = TRUE]
    ELSE st

\* The loop body up to the escape sequences of column st.pos: the hyperlink
\* bracket, then the SGR delta.
line_as_ansi_escapes(self, st) ==
    line_as_ansi_sgr(line_as_ansi_hyperlink(st, self.cpu_cells[st.pos].hyperlink_id),
                     sgr_for_cell(self.gpu_cells[st.pos], st.prev_cell))

\* The rest of the loop body: o3 is the buffer after text_in_cell_ansi wrote
\* the n code points of the cell.
line_as_ansi_text(self, st, n, o3) ==
    LET at    == o3.len - n + 1          \* index of buf[len - n]
        \* with n = 0 this reads the slot after the contents; a slot that was
        \* never written holds an unknown value, and none of the outcomes
        \* changes the contents [0, len)
        known == at <= Len(o3.buf)
        blank == known /\ o3.buf[at] = 0
        istab == known /\ o3.buf[at] = Ord("\t")
        skip  == IF istab /\ n > 1 THEN o3.buf[at + 1] ELSE 0
        len2  == IF istab /\ n > 1 THEN o3.len - (n - 1) ELSE o3.len
        pos2  == IF istab THEN skip_tab_cells(self, st.pos, skip, st.limit) ELSE st.pos
    IN  [st EXCEPT !.output = [o3 EXCEPT !.buf = IF blank THEN [o3.buf EXCEPT ![at] = Ord(" ")]
                                                  ELSE o3.buf,
                                         !.len = len2],
                   !.pos = pos2 + 1,
                   !.prev_cell = self.gpu_cells[st.pos]]

line_as_ansi_after_escapes(self, tc, st, o3) ==
    line_as_ansi_text(self, st, o3.len - st.output.len, o3)

\* The body of the loop for column st.pos.
line_as_ansi_body(self, tc, st) ==
    line_as_ansi_after_escapes(self, tc, st,
                               text_in_cell_ansi(self.cpu_cells[st.pos], tc, st.output))

line_as_ansi_cell(self, tc, st) ==
    line_as_ansi_body(self, tc, line_as_ansi_escapes(self, st))

RECURSIVE line_as_ansi_loop(_, _, _)
line_as_ansi_loop(self, tc, st) ==
    IF st.pos < st.limit THEN line_as_ansi_loop(self, tc, line_as_ansi_cell(self, tc, st))
    ELSE st

PromptMark(prompt_kind) ==
    CASE prompt_kind = "PROMPT_START" -> Str(<<"A">>)
      [] prompt_kind = "SECONDARY_PROMPT" -> Str(<<"A", ";", "k", "=", "s">>)
      [] prompt_kind = "OUTPUT_START" -> Str(<<"C">>)

\* What line_as_ansi hands back: the buffer, *prev_cell and its return value.
\* prev_cell is <<>> for the NULL pointer and <<cell>> otherwise.
AnsiResult(output, prev_cell, escape_code_written) ==
    [output |-> output, prev_cell |-> prev_cell,
     escape_code_written |-> escape_code_written]

line_as_ansi_done(st) == AnsiResult(st.output, <<st.prev_cell>>, st.escape_code_written)

\* The buffer after the prefix character and the prompt mark.
line_as_ansi_start(self, output, prefix_char) ==
    LET o1 == IF prefix_char # 0 THEN W([output EXCEPT !.len = 0], prefix_char)
              ELSE [output EXCEPT !.len = 0]
    IN  IF self.prompt_kind # "UNKNOWN_PROMPT_KIND"
        THEN write_mark(PromptMark(self.prompt_kind), o1)
        ELSE o1

line_as_ansi(self, tc, output, prev_cell, start_at, stop_before, prefix_char) ==
    LET limit  == Min(stop_before, xlimit_for_line(self))
        marked == self.prompt_kind # "UNKNOWN_PROMPT_KIND"
    IN  IF limit <= start_at
        THEN AnsiResult(line_as_ansi_start(self, output, prefix_char), prev_cell, marked)
        ELSE line_as_ansi_done(
                 line_as_ansi_loop(self, tc,
                     [output |-> line_as_ansi_start(self, output, prefix_char),
                      pos |-> start_at, limit |-> limit,
                      prev_cell |-> IF prev_cell = <<>> THEN blank_cell ELSE prev_cell[1],
                      escape_code_written |-> marked]))

\* The Line method as_ansi(): the string it returns.
as_ansi(self, tc) ==
    Contents(line_as_ansi(self, tc, ANSIBuf(<<>>, 0, 0, NullPool), <<>>, 0, self.xnum, 0).output)

\* ------------------------------------------------------------------------
\* Flattening a range of cells to code points: unicode_in_range
\* ------------------------------------------------------------------------

\* global_unicode_in_range_buf: its capacity as the code counts it, in code
\* points, and the size last handed to realloc, in bytes.
FlatBuf(capacity, alloc) == [capacity |-> capacity, alloc |-> alloc]

UnicodeBufMin == 4096

\* text_in_cell_without_alloc: FALSE when the text of the cell does not fit
\* in the capacity left.
text_in_cell_without_alloc(c, tc, capacity) == text_in_cell(c, tc).count <= capacity

\* while (!text_in_cell_without_alloc(...)) { ns = MAX(4096u, 2 * capacity);
\* np = realloc(chars, ns); capacity = ns; ... }: ns is both the byte count
\* realloc gets and the new capacity.
RECURSIVE unicode_buf_grown(_, _, _, _)
unicode_buf_grown(fb, c, tc, n) ==
    IF text_in_cell_without_alloc(c, tc, fb.capacity - n)
    THEN fb
    ELSE unicode_buf_grown(FlatBuf(Max(UnicodeBufMin, 2 * fb.capacity),
                                   Max(UnicodeBufMin, 2 * fb.capacity)), c, tc, n)

\* The tab loop of unicode_in_range: the number of cells after i it skips.
RECURSIVE unicode_tab_cells(_, _, _, _)
unicode_tab_cells(self, i, num_cells_to_skip_for_tab, limit) ==
    IF num_cells_to_skip_for_tab # 0 /\ i + 1 < limit
       /\ cell_is_char(self.cpu_cells[i + 1], Ord(" "))
    THEN 1 + unicode_tab_cells(self, i + 1, num_cells_to_skip_for_tab - 1, limit)
    ELSE 0

\* A tab cell flattened as the spec describes it: one space.
unicode_tab_as_space(self, chars, st, limit) ==
    [st EXCEPT !.text = st.text \o <<Ord(" ")>>,
               !.i = st.i + 1 + unicode_tab_cells(self, st.i,
                                    IF Len(chars) > 1 THEN chars[2] ELSE 0, limit)]

\* if (lc.chars[0] == '\t') { n++; ... }: the tab stays in the buffer and the
\* cells the loop skips put nothing there.
unicode_tab(self, chars, st, limit) ==
    [st EXCEPT !.text = st.text \o <<Ord("\t")>>,
               !.i = st.i + 1 + unicode_tab_cells(self, st.i,
                                    IF Len(chars) > 1 THEN chars[2] ELSE 0, limit)]

\* else n += include_cc ? lc.count : 1
unicode_chars(chars, st, include_cc) ==
    [st EXCEPT !.text = st.text \o (IF include_cc THEN chars ELSE <<chars[1]>>),
               !.i = st.i + 1]

\* continue
unicode_continue(st) == [st EXCEPT !.i = st.i + 1]

\* The body of the loop once the text of cell st.i is in lc.
unicode_cell(self, lc, st, limit, include_cc, skip_zero_cells) ==
    IF lc.is_multicell /\ ~lc.is_topleft THEN unicode_continue(st)
    ELSE IF lc.chars[1] = 0
         THEN IF skip_zero_cells THEN unicode_continue(st)
              ELSE unicode_chars(<<Ord(" ")>> \o Tail(lc.chars), st, include_cc)
    ELSE IF lc.chars[1] = Ord("\t") THEN unicode_tab(self, lc.chars, st, limit)
    ELSE unicode_chars(lc.chars, st, include_cc)

\* for (index_type i = start; i < limit; i++)
RECURSIVE unicode_loop(_, _, _, _, _, _)
unicode_loop(self, tc, st, limit, include_cc, skip_zero_cells) ==
    IF st.i < limit
    THEN unicode_loop(self, tc,
             unicode_cell(self, text_in_cell(self.cpu_cells[st.i], tc),
                 [st EXCEPT !.fb = unicode_buf_grown(st.fb, self.cpu_cells[st.i], tc,
                                                     Len(st.text))],
                 limit, include_cc, skip_zero_cells),
             limit, include_cc, skip_zero_cells)
    ELSE st

\* if (add_trailing_newline && !...next_char_was_wrapped && n < capacity) chars[n++] = '\n'
unicode_newline(self, st, add_trailing_newline) ==
    [text |-> IF add_trailing_newline
                 /\ ~self.cpu_cells[self.xnum - 1].next_char_was_wrapped
                 /\ Len(st.text) < st.fb.capacity
              THEN st.text \o <<Ord("\n")>>
              ELSE st.text,
     fb |-> st.fb]

\* unicode_in_range: the string it returns and the buffer it leaves.
unicode_in_range(self, tc, fb, start, limit, include_cc, add_trailing_newline, skip_zero_cells) ==
    unicode_newline(self,
        unicode_loop(self, tc, [i |-> start, text |-> <<>>, fb |-> fb],
                     limit, include_cc, skip_zero_cells),
        add_trailing_newline)

line_as_unicode(self, tc, fb, skip_zero_cells) ==
    unicode_in_range(self, tc, fb, 0, xlimit_for_line(self), TRUE, FALSE, skip_zero_cells)

\* cleanup_module: the buffer is freed and zeroed.
cleanup_module_buf == FlatBuf(0, 0)

\* ------------------------------------------------------------------------
\* Per-cell accessors and mutators
\* ------------------------------------------------------------------------

\* What a method hands back to Python: a value, an exception, or NULL with
\* no exception set (which the interpreter reports as a SystemError).
Ok(value) == [status |-> "ok", value |-> value]
Raise(exc) == [status |-> exc, value |-> <<>>]
NullNoException == [status |-> "NULL", value |-> <<>>]

\* The word a MultiCellData is stored as.
mcd_val(mcd) == mcd.width + 8 * mcd.scale + 64 * mcd.subscale

\* tc_chars_at_index: the stored code points of the entry of cell c; the
\* entry of a multi-cell glyph stores the MultiCellData word in front.
tc_chars_at_index(tc, c) ==
    IF c.is_multicell
    THEN <<mcd_val(tc[c.ch_or_idx].mcd)>> \o tc[c.ch_or_idx].chars
    ELSE tc[c.ch_or_idx].chars

\* text_at: the text of the cell when it is not the text of a whole entry.
text_at_multicell(cell, chars) ==
    IF cell.x # 0 \/ cell.y # 0 \/ Len(chars) = 0 THEN <<>> ELSE Tail(chars)

text_at(self, tc, xval) ==
    IF xval >= self.xnum THEN Raise("IndexError")
    ELSE IF self.cpu_cells[xval].ch_is_idx
         THEN IF self.cpu_cells[xval].is_multicell
              THEN Ok(text_at_multicell(self.cpu_cells[xval],
                                        tc_chars_at_index(tc, self.cpu_cells[xval])))
              ELSE Ok(tc_chars_at_index(tc, self.cpu_cells[xval]))
    ELSE Ok(<<self.cpu_cells[xval].ch_or_idx>>)

\* unsigned long ans = 1; if (c->is_multicell) ans = c->x || c->y ? 0 : ...width
width_of_cell(c, tc) ==
    IF c.is_multicell
    THEN IF c.x # 0 \/ c.y # 0 THEN 0 ELSE cell_multicell_data(c, tc).width
    ELSE 1

\* width: "return 0" in a function returning PyObject* returns NULL.
width(self, tc, x) ==
    IF x >= self.xnum THEN Raise("ValueError")
    ELSE IF ~cell_has_text(self.cpu_cells[x]) THEN NullNoException
    ELSE Ok(width_of_cell(self.cpu_cells[x], tc))

\* ColorProfile: the colour table the palette indices refer to.
ColorProfile == [color_table |-> [i \in 0..255 |-> 65793 * i]]

resolve_color(cp, val, defval) ==
    CASE val % 256 = 1 -> cp.color_table[(val \div 256) % 256]
      [] val % 256 = 2 -> val \div 256
      [] OTHER -> defval

\* while (self->cpu_cells[*x].is_multicell && self->cpu_cells[*x].x && *x) (*x)--
RECURSIVE walk_left(_, _)
walk_left(self, x) ==
    IF self.cpu_cells[x].is_multicell /\ self.cpu_cells[x].x # 0 /\ x # 0
    THEN walk_left(self, x - 1)
    ELSE x

\* colors_for_cell reading the cell at *x itself.
colors_for_cell_column_unwalked(self, x) == x

\* The column colors_for_cell reads: *x after the walk to the left.
colors_for_cell_column(self, x) == walk_left(self, x)

\* The fields colors_for_cell sets from the GPU cell g.
colors_of(g, cp, x, fg, bg, reversed) ==
    IF g.attrs.reverse
    THEN [ok |-> TRUE, x |-> x, fg |-> resolve_color(cp, g.bg, bg),
          bg |-> resolve_color(cp, g.fg, fg), reversed |-> TRUE]
    ELSE [ok |-> TRUE, x |-> x, fg |-> resolve_color(cp, g.fg, fg),
          bg |-> resolve_color(cp, g.bg, bg), reversed |-> reversed]

colors_at(self, cp, x, fg, bg, reversed) ==
    colors_of(self.gpu_cells[x], cp, x, fg, bg, reversed)

\* colors_for_cell: its return value and *x, *fg, *bg, *reversed after it.
colors_for_cell(self, cp, x, fg, bg, reversed) ==
    IF x >= self.xnum
    THEN [ok |-> FALSE, x |-> x, fg |-> fg, bg |-> bg, reversed |-> reversed]
    ELSE colors_at(self, cp, colors_for_cell_column(self, x), fg, bg, reversed)

\* A Cursor: the column and the rendition set_text reads.
Cursor(x, fg, bg, decoration_fg, attrs) ==
    [x |-> x, fg |-> fg, bg |-> bg, decoration_fg |-> decoration_fg, attrs |-> attrs]

cursor_to_attrs(cursor) == [cursor.attrs EXCEPT !.mark = 0]

\* self->cpu_cells[i].val = 0; self->cpu_cells[i].ch_or_idx = ch
set_text_cpu(c, ch) == PlainCell(ch)

\* self->gpu_cells[i].attrs = attrs; .fg = fg; .bg = bg; .decoration_fg = dfg
set_text_gpu(g, cursor) ==
    [g EXCEPT !.attrs = cursor_to_attrs(cursor), !.fg = cursor.fg, !.bg = cursor.bg,
              !.decoration_fg = cursor.decoration_fg]

\* set_text starting one column right of the cursor.
set_text_written_after_cursor(self, offset, limit, cursor) ==
    {i \in 0..(self.xnum - 1) : i > cursor.x /\ offset + (i - cursor.x) < limit}

\* for (i = cursor->x; offset < limit && i < self->xnum; i++, offset++)
set_text_written(self, offset, limit, cursor) ==
    {i \in 0..(self.xnum - 1) : i >= cursor.x /\ offset + (i - cursor.x) < limit}

set_text_line(self, src, offset, written, cursor) ==
    [self EXCEPT
        !.cpu_cells = [i \in 0..(self.xnum - 1) |->
                          IF i \in written
                          THEN set_text_cpu(self.cpu_cells[i], src[offset + (i - cursor.x) + 1])
                          ELSE self.cpu_cells[i]],
        !.gpu_cells = [i \in 0..(self.xnum - 1) |->
                          IF i \in written THEN set_text_gpu(self.gpu_cells[i], cursor)
                          ELSE self.gpu_cells[i]]]

\* set_text: the result and the line after it.
set_text(self, src, offset, sz, cursor) ==
    IF Len(src) < offset + sz
    THEN [result |-> Raise("ValueError"), line |-> self]
    ELSE [result |-> Ok(<<>>),
          line |-> set_text_line(self, src, offset,
                                 set_text_written(self, offset, offset + sz, cursor), cursor)]


\* tc_get_or_insert_chars: the index of the entry that interns chars; a new
\* entry, at the next free index, when no entry does.
tc_index_of(tc, chars) ==
    IF \E i \in DOMAIN tc : tc[i] = CacheEntry(chars, NoMcd)
    THEN CHOOSE i \in DOMAIN tc : tc[i] = CacheEntry(chars, NoMcd)
    ELSE Cardinality(DOMAIN tc)

tc_get_or_insert_chars(tc, chars) ==
    IF \E i \in DOMAIN tc : tc[i] = CacheEntry(chars, NoMcd) THEN tc
    ELSE tc @@ (Cardinality(DOMAIN tc) :> CacheEntry(chars, NoMcd))

\* add_combining_char rejecting only the continuation cells of a glyph.
add_combining_char_rejects_continuation(cell) == cell.is_multicell /\ (cell.x # 0 \/ cell.y # 0)

\* if (cell->is_multicell) { PyErr_SetString(PyExc_IndexError, ...); return NULL; }
add_combining_char_rejects(cell) == cell.is_multicell

\* text_in_cell(cell, tc, &lc); lc.chars[lc.count++] = new_char;
\* cell->ch_or_idx = tc_get_or_insert_chars(tc, &lc); cell->ch_is_idx = true
add_combining_char_to(self, tc, x, chars) ==
    [result |-> Ok(<<>>),
     line |-> [self EXCEPT !.cpu_cells[x].ch_or_idx = tc_index_of(tc, chars),
                           !.cpu_cells[x].ch_is_idx = TRUE],
     tc |-> tc_get_or_insert_chars(tc, chars)]

\* add_combining_char: the result, the line and the text cache after it.
add_combining_char(self, tc, x, new_char) ==
    IF x >= self.xnum
    THEN [result |-> Raise("ValueError"), line |-> self, tc |-> tc]
    ELSE IF add_combining_char_rejects(self.cpu_cells[x])
    THEN [result |-> Raise("IndexError"), line |-> self, tc |-> tc]
    ELSE add_combining_char_to(self, tc, x,
             text_in_cell(self.cpu_cells[x], tc).chars \o <<new_char>>)
\* ------------------------------------------------------------------------
\* Clearing and restyling a range of cells: clear_text and apply_cursor
\* ------------------------------------------------------------------------

\* unsigned int is 32 bits wide: a value is kept as its two 16-bit halves,
\* hi * 2^16 + lo.
HalfWord == 65536

U32(hi, lo) == [hi |-> hi, lo |-> lo]

\* at + num in unsigned int arithmetic: the sum modulo 2^32.
u32_add(a, b) ==
    U32((a.hi + b.hi + ((a.lo + b.lo) \div HalfWord)) % HalfWord, (a.lo + b.lo) % HalfWord)

u32_gt(a, b) == a.hi > b.hi \/ (a.hi = b.hi /\ a.lo > b.lo)

\* at + num does not fit in 32 bits.
u32_add_carries(a, b) == a.hi + b.hi + ((a.lo + b.lo) \div HalfWord) >= HalfWord

\* ptr + at + num in pointer arithmetic, which does not wrap at 2^32, lies
\* beyond ptr + xnum.
ends_beyond(at, num, xnum) ==
    \/ u32_add_carries(at, num)
    \/ u32_gt(u32_add(at, num), U32(0, xnum))

\* Index i of an array is one of the num elements from at on.
in_range(i, at, num) == at.hi = 0 /\ at.lo <= i /\ u32_gt(num, U32(0, i - at.lo))

\* memset_array(cells + at, v, num) on an array of xnum cells: the array
\* after it, and whether elements outside the array were written.
memset_array(cells, xnum, at, v, num) ==
    [cells |-> [i \in 0..(xnum - 1) |-> IF in_range(i, at, num) THEN v ELSE cells[i]],
     outside |-> num # U32(0, 0) /\ ends_beyond(at, num, xnum)]

\* if (at + num > self->xnum) num = self->xnum > at ? self->xnum - at : 0
clamped_num(at, num, xnum) ==
    IF u32_gt(u32_add(at, num), U32(0, xnum))
    THEN IF u32_gt(U32(0, xnum), at) THEN U32(0, xnum - at.lo) ELSE U32(0, 0)
    ELSE num

line_clear_text_cells(self, w) == [line |-> [self EXCEPT !.cpu_cells = w.cells], outside |-> w.outside]

\* line_clear_text: the line after it, and whether memory outside the cell
\* arrays was written.
line_clear_text(self, at, num, ch) ==
    line_clear_text_cells(self,
        memset_array(self.cpu_cells, self.xnum, at, PlainCell(ch),
                     clamped_num(at, num, self.xnum)))

\* cursor_as_gpu_cell: the GPU cell a cursor stands for.
cursor_as_gpu_cell(cursor) ==
    GPUCell(cursor.fg, cursor.bg, cursor.decoration_fg, cursor_to_attrs(cursor))

apply_cursor_cells(self, wc, wg) ==
    [line |-> [self EXCEPT !.cpu_cells = wc.cells, !.gpu_cells = wg.cells],
     outside |-> wc.outside \/ wg.outside]

\* The clear_char branch: memset(cpu_cells + at, 0, num * sizeof(CPUCell));
\* memset_array(gpu_cells + at, gc, num)
apply_cursor_clear(self, gc, at, num) ==
    apply_cursor_cells(self,
        memset_array(self.cpu_cells, self.xnum, at, PlainCell(0), num),
        memset_array(self.gpu_cells, self.xnum, at, gc, num))

\* for (i = at; i < self->xnum && i < at + num; i++): at + num is the sum
\* modulo 2^32; the mark of each cell is kept.
apply_cursor_keep(self, gc, at, num) ==
    [line |-> [self EXCEPT !.gpu_cells =
                  [i \in 0..(self.xnum - 1) |->
                      IF at.hi = 0 /\ at.lo <= i /\ u32_gt(u32_add(at, num), U32(0, i))
                      THEN [gc EXCEPT !.attrs.mark = self.gpu_cells[i].attrs.mark]
                      ELSE self.gpu_cells[i]]],
     outside |-> FALSE]

line_apply_cursor(self, cursor, at, num, clear_char) ==
    IF clear_char
    THEN apply_cursor_clear(self, cursor_as_gpu_cell(cursor), at,
                            clamped_num(at, num, self.xnum))
    ELSE apply_cursor_keep(self, cursor_as_gpu_cell(cursor), at, num)

\* ------------------------------------------------------------------------
\* Marking: mark_text_in_line, apply_marker, apply_mark
\* ------------------------------------------------------------------------

\* The bits of CellAttrs.mark.
MARK_MASK == 3

\* col & MARK_MASK
mark_of(col) == col % (MARK_MASK + 1)

\* The first column right of the cells a glyph covers, counted from column 0.
mcd_x_limit(mcd) == mcd.scale * mcd.width

\* MARK for every column of cols.
mark_cells(self, cols, mark) ==
    [self EXCEPT !.gpu_cells = [i \in 0..(self.xnum - 1) |->
                                   IF i \in cols
                                   THEN [self.gpu_cells[i] EXCEPT !.attrs.mark = mark]
                                   ELSE self.gpu_cells[i]]]

\* The tab loop of apply_mark: the number of cells after x it marks and skips.
RECURSIVE mark_tab_cells(_, _, _)
mark_tab_cells(self, x, num_cells_to_skip_for_tab) ==
    IF num_cells_to_skip_for_tab # 0 /\ x + 1 < self.xnum
       /\ cell_is_char(self.cpu_cells[x + 1], Ord(" "))
    THEN 1 + mark_tab_cells(self, x + 1, num_cells_to_skip_for_tab - 1)
    ELSE 0

\* apply_mark on a tab cell that is followed by n cells to skip.
apply_mark_tab(st, mark, n) ==
    [line |-> mark_cells(st.line, st.x..(st.x + n), mark),
     x |-> st.x + n + 1,
     match_pos |-> st.match_pos + 1]

\* apply_mark on a cell of a glyph: for (; x < x_limit; x++) MARK; x--;
apply_mark_multicell(st, mark, count, x_limit) ==
    [line |-> mark_cells(st.line, st.x..Max(st.x, x_limit - 1), mark),
     x |-> Max(st.x, x_limit),
     match_pos |-> st.match_pos + count]

\* apply_mark on any other cell with text, and on a cell without.
apply_mark_plain(st, mark, count) ==
    [line |-> mark_cells(st.line, {st.x}, mark),
     x |-> st.x + 1,
     match_pos |-> st.match_pos + count]

\* apply_mark once the text of the cell at st.x is in lc.
apply_mark_lc(st, tc, mark, lc) ==
    IF lc.chars[1] = 0 THEN apply_mark_plain(st, mark, 1)
    ELSE IF lc.chars[1] = Ord("\t")
         THEN apply_mark_tab(st, mark,
                  mark_tab_cells(st.line, st.x, IF lc.count > 1 THEN lc.chars[2] ELSE 0))
    ELSE IF st.line.cpu_cells[st.x].is_multicell
         THEN apply_mark_multicell(st, mark, lc.count,
                  Min(st.line.xnum,
                      mcd_x_limit(cell_multicell_data(st.line.cpu_cells[st.x], tc))))
    ELSE apply_mark_plain(st, mark, lc.count)

apply_mark(st, tc, mark) ==
    apply_mark_lc(st, tc, mark, text_in_cell(st.line.cpu_cells[st.x], tc))

\* while (match_pos < l && x < line->xnum) apply_mark(line, 0, &x, &match_pos)
RECURSIVE apply_marker_before(_, _, _)
apply_marker_before(st, tc, l) ==
    IF st.match_pos < l /\ st.x < st.line.xnum
    THEN apply_marker_before(apply_mark(st, tc, 0), tc, l)
    ELSE st

\* The marking loop stopping one position before the end of the match.
apply_marker_in_match_exclusive(match_pos, r) == match_pos < r

\* match_pos <= r
apply_marker_in_match(match_pos, r) == match_pos <= r

\* while (x < line->xnum && match_pos <= r) apply_mark(line, am, &x, &match_pos)
RECURSIVE apply_marker_within(_, _, _, _)
apply_marker_within(st, tc, r, am) ==
    IF st.x < st.line.xnum /\ apply_marker_in_match(st.match_pos, r)
    THEN apply_marker_within(apply_mark(st, tc, am), tc, r, am)
    ELSE st

\* while ((match = PyIter_Next(iter)) && x < line->xnum) { ... }
RECURSIVE apply_marker_matches(_, _, _)
apply_marker_matches(st, tc, matches) ==
    IF matches # <<>> /\ st.x < st.line.xnum
    THEN apply_marker_matches(
             apply_marker_within(apply_marker_before(st, tc, matches[1].l), tc,
                                 matches[1].r, mark_of(matches[1].col)),
             tc, Tail(matches))
    ELSE st

\* while (x < line->xnum) line->gpu_cells[x++].attrs.mark = 0
apply_marker_rest(st) == mark_cells(st.line, st.x..(st.line.xnum - 1), 0)

\* apply_marker: marker.failed stands for a marker whose call raises.
apply_marker(marker, self, tc) ==
    IF marker.failed THEN self
    ELSE apply_marker_rest(
             apply_marker_matches([line |-> self, x |-> 0, match_pos |-> 0], tc,
                                  marker.matches))

\* for (i = 0; i < line->xnum; i++) line->gpu_cells[i].attrs.mark = 0
clear_marks(self) == mark_cells(self, 0..(self.xnum - 1), 0)

\* mark_text_in_line: marker is <<>> for NULL; text is line_as_unicode(line, false).
mark_text_in_line(marker, self, tc, text) ==
    IF marker = <<>> THEN clear_marks(self)
    ELSE IF Len(text) > 0 THEN apply_marker(marker[1], self, tc)
    ELSE clear_marks(self)

\* ------------------------------------------------------------------------
\* URL detection: line_url_start_at, line_url_end_at
\* ------------------------------------------------------------------------

\* The code points the external classifier is_url_char accepts, among those
\* the lines of this model hold: letters, ':', '/', '.', and the combining
\* acute accent; not the space, not 0, not the brackets.
UrlChars == {Ord("a"), Ord("h"), Ord("t"), Ord("p"), Ord(":"), Ord("/"), Ord("."), 769}

is_url_char(ch) == ch \in UrlChars

\* Trailing punctuation: '.' and ':' are stripped, '/' is not.
can_strip_from_end_of_url(ch) == ch \in {Ord("."), Ord(":")}

\* OPT(url_prefixes): the configured prefixes, in order, and max_prefix_len.
url_prefixes == <<Str(<<"h", "t">>), Str(<<"p">>)>>

max_prefix_len == 2

MIN_URL_LEN == 5

is_hostname_char(ch) == ch = Ord("[") \/ ch = Ord("]") \/ is_url_char(ch)

is_hostname_lc(lc) == \A i \in 1..lc.count : is_hostname_char(lc.chars[i])

is_url_lc(lc) == \A i \in 1..lc.count : is_url_char(lc.chars[i])

\* The state find_colon_slash enters at the column it was asked about.
find_colon_slash_at_x(self, pos, state) ==
    IF cell_is_char(self.cpu_cells[pos], Ord(":"))
    THEN IF pos + 2 < self.xnum /\ cell_is_char(self.cpu_cells[pos + 1], Ord("/"))
            /\ cell_is_char(self.cpu_cells[pos + 2], Ord("/"))
         THEN "SECOND_SLASH" ELSE state
    ELSE IF cell_is_char(self.cpu_cells[pos], Ord("/"))
         THEN IF pos + 1 < self.xnum /\ cell_is_char(self.cpu_cells[pos + 1], Ord("/"))
              THEN "FIRST_SLASH" ELSE state
    ELSE state

\* switch (state): the next state, "found" when the colon is at pos.
find_colon_slash_switch(c, state) ==
    CASE state = "ANY" -> IF cell_is_char(c, Ord("/")) THEN "FIRST_SLASH" ELSE "ANY"
      [] state = "FIRST_SLASH" -> IF cell_is_char(c, Ord("/")) THEN "SECOND_SLASH" ELSE "ANY"
      [] OTHER -> IF cell_is_char(c, Ord(":")) THEN "found"
                  ELSE IF cell_is_char(c, Ord("/")) THEN "SECOND_SLASH" ELSE "ANY"

\* do { ... pos--; } while (pos >= limit)
RECURSIVE find_colon_slash_loop(_, _, _, _, _, _)
find_colon_slash_step(self, tc, x, limit, pos, state) ==
    IF state = "found" THEN pos
    ELSE IF pos - 1 >= limit THEN find_colon_slash_loop(self, tc, x, limit, pos - 1, state)
    ELSE 0

find_colon_slash_loop(self, tc, x, limit, pos, state) ==
    IF ~is_hostname_lc(text_in_cell(self.cpu_cells[pos], tc)) THEN 0
    ELSE find_colon_slash_step(self, tc, x, limit, pos,
             find_colon_slash_switch(self.cpu_cells[pos],
                 IF pos = x THEN find_colon_slash_at_x(self, pos, state) ELSE state))

\* find_colon_slash: the column of the ':' of a "://" at or before x, or 0.
find_colon_slash(self, tc, x, limit) ==
    IF Min(x, self.xnum - 1) < Max(2, limit) THEN 0
    ELSE find_colon_slash_loop(self, tc, x, Max(2, limit), Min(x, self.xnum - 1), "ANY")

\* prefix_matches comparing the length only, not the cells.
prefix_matches_any_cells(self, at, prefix) == Len(prefix) <= at

prefix_matches(self, at, prefix) ==
    /\ Len(prefix) <= at
    /\ \A i \in 1..Len(prefix) :
          /\ at - Len(prefix) + i - 1 < self.xnum
          /\ cell_is_char(self.cpu_cells[at - Len(prefix) + i - 1], prefix[i])

\* has_url_prefix_at: <<>> when no prefix ends at column at, else <<*ans>>.
RECURSIVE has_url_prefix_from(_, _, _, _)
has_url_prefix_from(self, at, min_prefix_len, i) ==
    IF i > Len(url_prefixes) THEN <<>>
    ELSE IF at < Len(url_prefixes[i]) \/ Len(url_prefixes[i]) < min_prefix_len
         THEN has_url_prefix_from(self, at, min_prefix_len, i + 1)
    ELSE IF prefix_matches(self, at, url_prefixes[i]) THEN <<at - Len(url_prefixes[i])>>
    ELSE has_url_prefix_from(self, at, min_prefix_len, i + 1)

has_url_prefix_at(self, at, min_prefix_len) == has_url_prefix_from(self, at, min_prefix_len, 1)

\* for (i = x; i < MIN(x + MIN_URL_LEN + 3, self->xnum); i++)
RECURSIVE has_url_beyond_from(_, _, _, _, _)
has_url_beyond_cell(self, tc, i, stop, num_of_slashes, lc) ==
    IF num_of_slashes < 3
    THEN /\ is_hostname_lc(lc)
         /\ has_url_beyond_from(self, tc, i + 1, stop,
                IF lc.count = 1 /\ lc.chars[1] = Ord("/")
                THEN num_of_slashes + 1 ELSE num_of_slashes)
    ELSE /\ is_url_lc(lc)
         /\ has_url_beyond_from(self, tc, i + 1, stop, num_of_slashes)

has_url_beyond_from(self, tc, i, stop, num_of_slashes) ==
    IF i < stop
    THEN has_url_beyond_cell(self, tc, i, stop, num_of_slashes,
                             text_in_cell(self.cpu_cells[i], tc))
    ELSE TRUE

has_url_beyond_colon_slash(self, tc, x) ==
    has_url_beyond_from(self, tc, x, Min(x + MIN_URL_LEN + 3, self.xnum), 0)

\* The second search of line_url_start_at: "://" at or before x.
line_url_start_before(self, tc, ds_pos) ==
    IF ds_pos = 0 \/ self.xnum < ds_pos + MIN_URL_LEN + 3
       \/ ~has_url_beyond_colon_slash(self, tc, ds_pos)
    THEN self.xnum
    ELSE IF has_url_prefix_at(self, ds_pos, 0) # <<>>
         THEN has_url_prefix_at(self, ds_pos, 0)[1]
    ELSE self.xnum

\* The first search of line_url_start_at: "://" ahead of x; <<>> when it
\* does not settle the answer.
line_url_start_ahead(self, tc, x, ds_pos) ==
    IF ds_pos # 0 /\ has_url_beyond_colon_slash(self, tc, ds_pos)
    THEN has_url_prefix_at(self, ds_pos, IF ds_pos > x THEN ds_pos - x ELSE 0)
    ELSE <<>>

line_url_start_from(self, tc, x, ahead) ==
    IF ahead # <<>> THEN ahead[1]
    ELSE line_url_start_before(self, tc, find_colon_slash(self, tc, x, 0))

line_url_start_at(self, tc, x) ==
    IF x >= self.xnum \/ self.xnum <= MIN_URL_LEN + 3 THEN self.xnum
    ELSE line_url_start_from(self, tc, x,
             line_url_start_ahead(self, tc, x,
                 find_colon_slash(self, tc, x + max_prefix_len + 3,
                                  IF x < 2 THEN 0 ELSE x - 2)))

is_pos_ok_for_url(self, tc, x, in_hostname, last_hostname_char_pos) ==
    /\ x < self.xnum
    /\ IF in_hostname /\ x <= last_hostname_char_pos
       THEN is_hostname_lc(text_in_cell(self.cpu_cells[x], tc))
       ELSE is_url_lc(text_in_cell(self.cpu_cells[x], tc))

\* if (sentinel) ... !cell_is_char(self->cpu_cells + ans, sentinel) ...
url_end_stops_at(c, sentinel) == sentinel # 0 /\ cell_is_char(c, sentinel)

\* while (ans < self->xnum && ... && pos_ok(ans)) ans++
RECURSIVE url_end_forward(_, _, _, _, _, _)
url_end_forward(self, tc, ans, sentinel, in_hostname, last_hostname_char_pos) ==
    IF ans < self.xnum /\ ~url_end_stops_at(self.cpu_cells[ans], sentinel)
       /\ is_pos_ok_for_url(self, tc, ans, in_hostname, last_hostname_char_pos)
    THEN url_end_forward(self, tc, ans + 1, sentinel, in_hostname, last_hostname_char_pos)
    ELSE ans

\* while (ans > x && !cells[ans].ch_is_idx && can_strip_from_end_of_url(...)) ans--
RECURSIVE url_end_strip(_, _, _)
url_end_strip(self, x, ans) ==
    IF ans > x /\ ~self.cpu_cells[ans].ch_is_idx
       /\ can_strip_from_end_of_url(self.cpu_cells[ans].ch_or_idx)
    THEN url_end_strip(self, x, ans - 1)
    ELSE ans

\* if (ans) ans--
url_end_backed_off(ans) == IF ans # 0 THEN ans - 1 ELSE ans

\* The stripping of trailing punctuation, unless the URL goes on in the next line.
url_end_back(self, x, ans, next_line_starts_with_url_chars) ==
    IF ans < self.xnum - 1 \/ ~next_line_starts_with_url_chars
    THEN url_end_strip(self, x, ans)
    ELSE ans

line_url_end_at(self, tc, x, check_short, sentinel, next_line_starts_with_url_chars, in_hostname, last_hostname_char_pos) ==
    IF x >= self.xnum \/ (check_short /\ self.xnum <= MIN_URL_LEN + 3) THEN 0
    ELSE url_end_back(self, x,
             url_end_backed_off(url_end_forward(self, tc, x, sentinel, in_hostname,
                                                last_hostname_char_pos)),
             next_line_starts_with_url_chars)

\* The Python method url_end_at(x, sentinel, next_line_starts_with_url_chars).
url_end_at(self, tc, x, sentinel, next_line_starts_with_url_chars) ==
    line_url_end_at(self, tc, x, TRUE, sentinel, next_line_starts_with_url_chars,
                    FALSE, self.xnum)

\* ------------------------------------------------------------------------
\* Serializing a range of lines to a sink callback: as_text_generic
\* ------------------------------------------------------------------------

nl == Str(<<"\n">>)

cr == <<13>>

sgr_reset == Str(<<"ESC", "[", "m">>)

\* PyUnicode_FromString("\x1b]8;;\x1b\\")
hyperlink_close == Str(<<"ESC", "]", "8", ";", ";", "ESC", "\\">>)

\* APPEND(x): the sink is called with the fragment x; when the call raises
\* (the fail_at-th call of the sink does), as_text_generic returns NULL and
\* nothing after it runs.  Each fragment is recorded with the loop index y
\* at which it was handed over (the number of lines fetched, after the loop).
APPEND(st, x) ==
    IF st.failed THEN st
    ELSE [st EXCEPT !.sink = Append(st.sink, [y |-> st.y, text |-> x]),
                    !.failed = (Len(st.sink) + 1 = st.fail_at)]

\* if (need_newline) APPEND(nl)
as_text_newline(st) == IF st.need_newline THEN APPEND(st, nl) ELSE st

\* The two fragments of a line in ANSI form, in the opposite order.
as_text_ansi_reset_last(st, output) ==
    IF output.len > 0
    THEN APPEND(APPEND([st EXCEPT !.ansibuf = output], Contents(output)), sgr_reset)
    ELSE APPEND([st EXCEPT !.ansibuf = output], Contents(output))

\* t = PyUnicode_FromKindAndData(..., ansibuf->buf, ansibuf->len);
\* if (t && ansibuf->len > 0) APPEND(sgr_reset); ... APPEND_AND_DECREF(t)
as_text_ansi_fragments(st, output) ==
    IF output.len > 0
    THEN APPEND(APPEND([st EXCEPT !.ansibuf = output], sgr_reset), Contents(output))
    ELSE APPEND([st EXCEPT !.ansibuf = output], Contents(output))

\* prev_cell = NULL; line_as_ansi(line, ansibuf, &prev_cell, 0, line->xnum, 0)
as_text_ansi(self, tc, st) ==
    IF st.failed THEN st
    ELSE as_text_ansi_fragments(st,
             line_as_ansi(self, tc, st.ansibuf, <<>>, 0, self.xnum, 0).output)

\* t = line_as_unicode(line, false); APPEND_AND_DECREF(t)
as_text_unicode_fragment(st, t) == APPEND([st EXCEPT !.fb = t.fb], t.text)

as_text_unicode(self, tc, st) ==
    IF st.failed THEN st
    ELSE as_text_unicode_fragment(st, line_as_unicode(self, tc, st.fb, FALSE))

\* if (insert_wrap_markers) APPEND(cr)
as_text_wrap_marker(st, insert_wrap_markers) ==
    IF insert_wrap_markers THEN APPEND(st, cr) ELSE st

\* need_newline computed from the first cell of the line.
need_newline_from_first_cell(self) == ~self.cpu_cells[0].next_char_was_wrapped

\* need_newline = !line->cpu_cells[line->xnum-1].next_char_was_wrapped
need_newline_after(self) == ~self.cpu_cells[self.xnum - 1].next_char_was_wrapped

\* The end of the loop body and the y++ of the loop.
as_text_next(st, need_newline) ==
    IF st.failed THEN st
    ELSE [st EXCEPT !.need_newline = need_newline, !.y = st.y + 1]

\* The body of the loop for the line that get_line returned.
as_text_line(self, tc, st, ansi, insert_wrap_markers) ==
    as_text_next(
        as_text_wrap_marker(
            IF ansi THEN as_text_ansi(self, tc, as_text_newline(st))
            ELSE as_text_unicode(self, tc, as_text_newline(st)),
            insert_wrap_markers),
        need_newline_after(self))

\* for (y = 0; y < lines; y++) { line = get_line(container, y); if (!line) break; ... }
\* get_line returns NULL, with no error set, past the end of the container.
RECURSIVE as_text_loop(_, _, _, _, _, _)
as_text_loop(container, tc, st, lines, ansi, insert_wrap_markers) ==
    IF ~st.failed /\ st.y < lines /\ st.y < Len(container)
    THEN as_text_loop(container, tc,
             as_text_line(container[st.y + 1], tc, st, ansi, insert_wrap_markers),
             lines, ansi, insert_wrap_markers)
    ELSE st

\* if (need_newline && add_trailing_newline) APPEND(nl)
as_text_trailing_newline(st, add_trailing_newline) ==
    IF st.need_newline /\ add_trailing_newline THEN APPEND(st, nl) ELSE st

\* The end of as_text_generic leaving the hyperlink open.
as_text_leave_hyperlink(st) == st

\* if (ansibuf->active_hyperlink_id) { ansibuf->active_hyperlink_id = 0; t = ...; APPEND_AND_DECREF(t) }
as_text_close_hyperlink(st) ==
    IF ~st.failed /\ st.ansibuf.active_hyperlink_id # 0
    THEN APPEND([st EXCEPT !.ansibuf.active_hyperlink_id = 0], hyperlink_close)
    ELSE st

\* What as_text_generic leaves: None or NULL, the fragments the sink was
\* called with, the ANSI buffer and the flatten buffer.
as_text_result(st) ==
    [status |-> IF st.failed THEN "error" ELSE "ok", sink |-> st.sink,
     ansibuf |-> st.ansibuf, fb |-> st.fb]

as_text_generic(container, tc, lines, ansibuf, fb, ansi, insert_wrap_markers, add_trailing_newline, fail_at) ==
    as_text_result(
        as_text_close_hyperlink(
            as_text_trailing_newline(
                as_text_loop(container, tc,
                    [y |-> 0, need_newline |-> FALSE, sink |-> <<>>,
                     ansibuf |-> [ansibuf EXCEPT !.active_hyperlink_id = 0],
                     fb |-> fb, failed |-> FALSE, fail_at |-> fail_at],
                    lines, ansi, insert_wrap_markers),
                add_trailing_newline)))

\* ------------------------------------------------------------------------
\* What the specifications share: a call returns, then the next may start
\* ------------------------------------------------------------------------

\* A line that the specifications about pure functions leave untouched.
NoLine == Line(<<PlainCell(0)>>, <<blank_cell>>, "UNKNOWN_PROMPT_KIND")

\* static ListOfChars global_unicode_in_range_buf = {0}
NoFlatBuf == FlatBuf(0, 0)

Idle ==
    /\ pc = "idle"
    /\ op = "none"
    /\ args = <<>>
    /\ ret = <<>>

\* The caller takes the result: the next call may start.
Return ==
    /\ pc = "done"
    /\ pc' = "idle"
    /\ op' = "none"
    /\ args' = <<>>
    /\ ret' = <<>>
    /\ UNCHANGED <<line, text_cache, flatbuf>>

\* A text cache given as a tuple of entries: index i is entry i+1 of the tuple.
Cache(t) == [i \in 0..(Len(t) - 1) |-> t[i + 1]]

RECURSIVE Flatten(_)
Flatten(ss) == IF ss = <<>> THEN <<>> ELSE Head(ss) \o Flatten(Tail(ss))

\* All sequences of at least one and at most n elements of S.
SeqsUpTo(S, n) == UNION {[1..k -> S] : k \in 1..n}

\* ------------------------------------------------------------------------
\* Specification SpecSgr: cell_as_sgr applied to pairs of GPU cells
\* ------------------------------------------------------------------------

SgrColors == {0, IndexedColor(1), IndexedColor(2), IndexedColor(9), IndexedColor(200),
              TrueColor(1, 2, 3)}

\* Cells that differ in intensity, underline style and foreground.
SgrCellsA ==
    {GPUCell(fg, 0, 0, Attrs(b, d, FALSE, FALSE, FALSE, u, 0)) :
        fg \in SgrColors, b \in BOOLEAN, d \in BOOLEAN, u \in 0..5}

\* Cells that differ in italic, reverse, strike, background and underline colour.
SgrCellsB ==
    {GPUCell(0, bg, dfg, Attrs(FALSE, FALSE, i, r, s, 0, m)) :
        bg \in {0, IndexedColor(12), TrueColor(100, 0, 16)},
        dfg \in {0, IndexedColor(3), TrueColor(0, 128, 255)},
        i \in BOOLEAN, r \in BOOLEAN, s \in BOOLEAN, m \in {0, 3}}

SgrPairs == (SgrCellsA \X SgrCellsA) \cup (SgrCellsB \X SgrCellsB)

InitSgr ==
    /\ line = NoLine
    /\ text_cache = <<>>
    /\ flatbuf = NoFlatBuf
    /\ Idle

CallCellAsSgr ==
    /\ pc = "idle"
    /\ \E pair \in SgrPairs :
          /\ args' = [cell |-> pair[1], prev |-> pair[2]]
          /\ ret' = cell_as_sgr(pair[1], pair[2])
    /\ pc' = "done"
    /\ op' = "cell_as_sgr"
    /\ UNCHANGED <<line, text_cache, flatbuf>>

NextSgr == CallCellAsSgr \/ Return

SpecSgr == InitSgr /\ [][NextSgr]_vars

\* The SGR code of an underline style, as the specification lists them.
UnderlineCode(style) ==
    CASE style = 1 -> Str(<<"4">>)
      [] style = 2 -> Str(<<"4", ":", "2">>)
      [] style = 3 -> Str(<<"4", ":", "3">>)
      [] style = 4 -> Str(<<"4", ":", "4">>)
      [] style = 5 -> Str(<<"4", ":", "5">>)
      [] style = 0 -> Str(<<"2", "4">>)

\* The codes of an SGR delta: its pieces between semicolons.
SgrCodes(sgr) == IF sgr = <<>> THEN {} ELSE SeqToSet(SplitOn(sgr, Ord(";")))

\* C1: whenever the underline style of cell differs from prev's, the delta of
\* cell_as_sgr holds the complete code of the new style (4, 4:2, 4:3, 4:4,
\* 4:5, or 24 for none) and does not end in a semicolon.
C1_UnderlineCodeComplete ==
    (op = "cell_as_sgr" /\ args.cell.attrs.decoration # args.prev.attrs.decoration)
        => /\ UnderlineCode(args.cell.attrs.decoration) \in SgrCodes(ret)
           /\ ret # <<>>
           /\ ret[Len(ret)] # Ord(";")


\* SGR semantics of the intensity codes: 1 sets bold, 2 sets dim, 22 clears
\* both; st is <<bold, dim>>.
ApplyIntensityCode(st, code) ==
    IF code = Str(<<"1">>) THEN <<TRUE, st[2]>>
    ELSE IF code = Str(<<"2">>) THEN <<st[1], TRUE>>
    ELSE IF code = Str(<<"2", "2">>) THEN <<FALSE, FALSE>>
    ELSE st

RECURSIVE InterpretIntensity(_, _)
InterpretIntensity(codes, st) ==
    IF codes = <<>> THEN st
    ELSE InterpretIntensity(Tail(codes), ApplyIntensityCode(st, Head(codes)))

IntensityOf(cell) == <<cell.attrs.bold, cell.attrs.dim>>

IntensityCodes == {Str(<<"1">>), Str(<<"2">>), Str(<<"2", "2">>)}

\* C18: interpreting the codes of cell_as_sgr(cell, prev) in order under SGR
\* semantics, starting from prev's (bold, dim), yields the cell's (bold, dim);
\* no intensity code (1, 2, 22) is in the delta when the two are equal.
C18_IntensityCodesReachCell ==
    (op = "cell_as_sgr")
        => /\ InterpretIntensity(IF ret = <<>> THEN <<>> ELSE SplitOn(ret, Ord(";")),
                                 IntensityOf(args.prev)) = IntensityOf(args.cell)
           /\ IntensityOf(args.prev) = IntensityOf(args.cell)
                 => SgrCodes(ret) \cap IntensityCodes = {}

\* From bold to dim: the reset, then the dim code.
C18_Witness ==
    /\ op = "cell_as_sgr"
    /\ IntensityOf(args.prev) = <<TRUE, FALSE>>
    /\ IntensityOf(args.cell) = <<FALSE, TRUE>>
    /\ SubSeq(ret, 1, 4) = Str(<<"2", "2", ";", "2">>)
\* ------------------------------------------------------------------------
\* Specification SpecAnsi: as_ansi() and line_as_ansi on small lines
\* ------------------------------------------------------------------------

HyperlinkRun == 4
MaxItems == 3

\* Entries 0..3: a base with a combining mark, a tab that skipped two cells,
\* a glyph two cells wide, a glyph of scale two.
AnsiCache ==
    Cache(<<CacheEntry(<<Ord("a"), 769>>, NoMcd),
            CacheEntry(<<Ord("\t"), 2>>, NoMcd),
            CacheEntry(<<Ord("x")>>, MultiCellData(2, 1, 0)),
            CacheEntry(<<Ord("y")>>, MultiCellData(1, 2, 1))>>)

\* The registry: key "a:h:u" is id a with URI h:u, key ":u" has no id.
AnsiPool ==
    HyperlinkPool(TRUE, (7 :> Str(<<"a", ":", "h", ":", "u">>)) @@ (5 :> Str(<<":", "u">>)))

WithLink(c, hid) == [c EXCEPT !.hyperlink_id = hid]

\* Lines of 2 * HyperlinkRun cells "x" that differ in their hyperlink ids
\* (9 is an id the registry does not know).
HyperlinkLines ==
    {Line([i \in 1..(2 * HyperlinkRun) |-> WithLink(PlainCell(Ord("x")), hs[i])],
          [i \in 1..(2 * HyperlinkRun) |-> blank_cell], "UNKNOWN_PROMPT_KIND") :
        hs \in {h \in [1..(2 * HyperlinkRun) -> {0, 5, 7, 9}] :
                   \A i \in 2..(2 * HyperlinkRun) : h[i] \in {0, 7}}}

StyleCells ==
    {GPUCell(fg, 0, 0, Attrs(b, d, FALSE, FALSE, FALSE, u, 0)) :
        fg \in {0, IndexedColor(1), IndexedColor(2)}, b \in BOOLEAN, d \in BOOLEAN,
        u \in {0, 4}}

\* Lines "ab" that differ in the style of their two cells.
StyleLines ==
    {Line(<<PlainCell(Ord("a")), PlainCell(Ord("b"))>>, <<g1, g2>>, "UNKNOWN_PROMPT_KIND") :
        g1 \in StyleCells, g2 \in StyleCells}

\* The cells a line is made of: one cell, or all the cells of one glyph.
CellItems ==
    {<<PlainCell(Ord("a"))>>, <<PlainCell(0)>>, <<PlainCell(Ord(" "))>>,
     <<IndexedCell(0)>>, <<IndexedCell(1)>>,
     <<MultiCell(2, 0, 0), MultiCell(2, 1, 0)>>,
     <<MultiCell(3, 0, 0), MultiCell(3, 1, 0)>>}

PromptKinds == {"UNKNOWN_PROMPT_KIND", "PROMPT_START", "SECONDARY_PROMPT", "OUTPUT_START"}

DefaultGpu(cpu) == [i \in 1..Len(cpu) |-> blank_cell]

\* Lines of up to MaxItems items, short ones with every prompt kind, and the
\* lower row of a glyph of scale two followed by a plain cell.
ItemLines ==
    {Line(Flatten(items), DefaultGpu(Flatten(items)), "UNKNOWN_PROMPT_KIND") :
        items \in SeqsUpTo(CellItems, MaxItems)}
    \cup {Line(item, DefaultGpu(item), k) : item \in CellItems, k \in PromptKinds}
    \cup {Line(<<MultiCell(3, 0, 1), MultiCell(3, 1, 1), PlainCell(Ord("a"))>>,
               <<blank_cell, blank_cell, blank_cell>>, "UNKNOWN_PROMPT_KIND")}

AnsiLines == HyperlinkLines \cup StyleLines \cup ItemLines

InitAnsi ==
    /\ line \in AnsiLines
    /\ text_cache = AnsiCache
    /\ flatbuf = NoFlatBuf
    /\ Idle

CallAsAnsi ==
    /\ pc = "idle"
    /\ pc' = "done"
    /\ op' = "as_ansi"
    /\ args' = <<>>
    /\ ret' = [text |-> as_ansi(line, text_cache)]
    /\ UNCHANGED <<line, text_cache, flatbuf>>

CallLineAsAnsi ==
    /\ pc = "idle"
    /\ \E pool \in {NullPool, AnsiPool}, active \in {0, 7},
          prev_cell \in {<<>>, <<GPUCell(IndexedColor(1), 0, 0,
                                          Attrs(TRUE, FALSE, FALSE, FALSE, FALSE, 0, 0))>>},
          start_at \in {0, 1}, stop_before \in {line.xnum - 1, line.xnum},
          prefix_char \in {0, Ord("z")} :
          /\ args' = [pool |-> pool, active_hyperlink_id |-> active, prev_cell |-> prev_cell,
                      start_at |-> start_at, stop_before |-> stop_before,
                      prefix_char |-> prefix_char]
          /\ ret' = line_as_ansi(line, text_cache, ANSIBuf(<<>>, 0, active, pool), prev_cell,
                                 start_at, stop_before, prefix_char)
    /\ pc' = "done"
    /\ op' = "line_as_ansi"
    /\ UNCHANGED <<line, text_cache, flatbuf>>

NextAnsi == CallAsAnsi \/ CallLineAsAnsi \/ Return

SpecAnsi == InitAnsi /\ [][NextAnsi]_vars

\* The text a serializer call produced.
AnsiText == IF op = "as_ansi" THEN ret.text ELSE Contents(ret.output)

\* The columns a call serializes.
AnsiRange ==
    IF op = "as_ansi" THEN 0..(xlimit_for_line(line) - 1)
    ELSE args.start_at..(Min(args.stop_before, xlimit_for_line(line)) - 1)

IsAnchor(c) == c.ch_is_idx /\ c.is_multicell /\ c.x = 0 /\ c.y = 0

IsContinuation(c) == c.is_multicell /\ (c.x # 0 \/ c.y # 0)

TextSizeIntro == Str(<<"ESC", "]">>) \o Dec(TEXT_SIZE_CODE) \o Str(<<";">>)

\* C2: the text a serializer writes for a multi-cell anchor in its range is
\* the multi-cell OSC prefix, then the cached text, then BEL, all within the
\* contents [0, len) of the buffer.
C2_AnchorTextEndsWithBel ==
    (op \in {"as_ansi", "line_as_ansi"})
        => \A pos \in AnsiRange :
              IsAnchor(line.cpu_cells[pos])
                 => \E i \in 1..Len(AnsiText), j \in 1..Len(AnsiText) :
                       /\ i < j
                       /\ OccursAt(AnsiText, TextSizeIntro, i)
                       /\ OccursAt(AnsiText,
                                   text_cache[line.cpu_cells[pos].ch_or_idx].chars
                                      \o Str(<<"BEL">>), j)

\* Where the text of the k-th serialized cell (k = 0, 1, ...) sits in AnsiText,
\* for lines whose cells all hold the one code point ch, which no escape
\* sequence of the model contains.
TextPos(ch, k) ==
    CHOOSE i \in 1..Len(AnsiText) :
        /\ AnsiText[i] = ch
        /\ Cardinality({j \in 1..(i - 1) : AnsiText[j] = ch}) = k

Osc8Intro == Str(<<"ESC", "]", "8", ";">>)

Osc8Close == Str(<<"ESC", "]", "8", ";", ";", "ESC", "\\">>)

\* ESC ] 8 ; [id=<id>] ; <uri> ESC \ for the two keys of AnsiPool.
Osc8Open(hid) ==
    CASE hid = 7 -> Str(<<"ESC", "]", "8", ";", "i", "d", "=", "a", ";", "h", ":", "u",
                          "ESC", "\\">>)
      [] hid = 5 -> Str(<<"ESC", "]", "8", ";", ";", "u", "ESC", "\\">>)

\* Cells 0..HyperlinkRun-1 carry the registered link hid, the next
\* HyperlinkRun cells carry no link, and no cell is blank.
HyperlinkScenario(hid) ==
    /\ line.xnum = 2 * HyperlinkRun
    /\ hid \in DOMAIN AnsiPool.keys
    /\ \A i \in 0..(HyperlinkRun - 1) : line.cpu_cells[i].hyperlink_id = hid
    /\ \A i \in HyperlinkRun..(2 * HyperlinkRun - 1) : line.cpu_cells[i].hyperlink_id = 0
    /\ \A i \in 0..(line.xnum - 1) : cell_is_char(line.cpu_cells[i], Ord("x"))

\* One OSC 8 open before the text of cell 0, one OSC 8 close between the text
\* of the last linked cell and the text of the first unlinked one, no other OSC 8.
HyperlinkBracket(hid) ==
    /\ Cardinality(Occurrences(AnsiText, Osc8Intro)) = 2
    /\ \E p1 \in Occurrences(AnsiText, Osc8Intro) :
          /\ p1 < TextPos(Ord("x"), 0)
          /\ OccursAt(AnsiText, Osc8Open(hid), p1)
    /\ \E p2 \in Occurrences(AnsiText, Osc8Intro) :
          /\ TextPos(Ord("x"), HyperlinkRun - 1) < p2
          /\ p2 < TextPos(Ord("x"), HyperlinkRun)
          /\ OccursAt(AnsiText, Osc8Close, p2)

WholeLineWithPool ==
    /\ op = "line_as_ansi"
    /\ args.pool.present
    /\ args.active_hyperlink_id = 0
    /\ args.start_at = 0
    /\ args.stop_before = line.xnum

\* C3 as stated: the Line method as_ansi() brackets the linked cells with
\* one OSC 8 open before cell 0 and one OSC 8 close before the first
\* unlinked cell.
C3_AsAnsiMethodBracketsLink ==
    \A hid \in DOMAIN AnsiPool.keys :
        (op = "as_ansi" /\ HyperlinkScenario(hid)) => HyperlinkBracket(hid)

\* C3 amended: line_as_ansi over the whole line, into a buffer that has a
\* hyperlink pool and no active link, brackets the linked cells with one OSC 8
\* open before cell 0 and one OSC 8 close before the first unlinked cell;
\* as_ansi(), whose buffer has no pool, writes no OSC 8 at all.
C3_LineAsAnsiBracketsLink ==
    /\ \A hid \in DOMAIN AnsiPool.keys :
          (WholeLineWithPool /\ HyperlinkScenario(hid)) => HyperlinkBracket(hid)
    /\ (op = "as_ansi") => Occurrences(AnsiText, Osc8Intro) = {}

C3_Witness == WholeLineWithPool /\ HyperlinkScenario(7) /\ HyperlinkBracket(7)

\* The parameter strings of the CSI ... m sequences of s, in order.
RECURSIVE SgrRuns(_)
SgrRuns(s) ==
    IF \A i \in 1..Len(s) : ~OccursAt(s, Str(<<"ESC", "[">>), i) THEN <<>>
    ELSE LET i == CHOOSE k \in 1..Len(s) :
                     /\ OccursAt(s, Str(<<"ESC", "[">>), k)
                     /\ \A j \in 1..(k - 1) : ~OccursAt(s, Str(<<"ESC", "[">>), j)
             m == CHOOSE k \in (i + 2)..Len(s) :
                     s[k] = Ord("m") /\ \A j \in (i + 2)..(k - 1) : s[j] # Ord("m")
         IN  <<SubSeq(s, i + 2, m - 1)>> \o SgrRuns(SubSeq(s, m + 1, Len(s)))

BoldCell(fg) == GPUCell(fg, 0, 0, Attrs(TRUE, FALSE, FALSE, FALSE, FALSE, 0, 0))

\* "ab" with (bold, fg=red, bg=default) then (bold, fg=green, bg=default),
\* serialized whole from the null prev_cell.
BoldRedGreenScenario ==
    /\ op \in {"as_ansi", "line_as_ansi"}
    /\ line.xnum = 2
    /\ line.gpu_cells[0] = BoldCell(IndexedColor(1))
    /\ line.gpu_cells[1] = BoldCell(IndexedColor(2))
    /\ cell_is_char(line.cpu_cells[0], Ord("a"))
    /\ cell_is_char(line.cpu_cells[1], Ord("b"))
    /\ (op = "line_as_ansi") =>
          (args.prev_cell = <<>> /\ args.start_at = 0 /\ args.stop_before = 2)

\* What is written between the text of cell 0 and the text of cell 1.
BetweenAB == SubSeq(AnsiText, TextPos(Ord("a"), 0) + 1, TextPos(Ord("b"), 0) - 1)

\* C4 as stated: bold is written as the sequence CSI 1 m exactly once, before
\* the first cell, and the second cell writes only CSI 32 m.
C4_BoldAsCsi1mOnce ==
    BoldRedGreenScenario
        => /\ Cardinality({k \in 1..Len(SgrRuns(AnsiText)) :
                              SgrRuns(AnsiText)[k] = Str(<<"1">>)}) = 1
           /\ BetweenAB = Str(<<"ESC", "[", "3", "2", "m">>)

\* C4 amended: the first cell writes the one run CSI 22;1;31 m (intensity
\* reset, bold, red), so the bold code 1 is written exactly once, and the
\* second cell writes only CSI 32 m.
C4_BoldOnceThenColorOnly ==
    BoldRedGreenScenario
        => /\ SgrRuns(AnsiText) = <<Str(<<"2", "2", ";", "1", ";", "3", "1">>), Str(<<"3", "2">>)>>
           /\ OccursAt(AnsiText, Str(<<"ESC", "[", "2", "2", ";", "1", ";", "3", "1", "m", "a">>),
                       TextPos(Ord("a"), 0) - 10)
           /\ BetweenAB = Str(<<"ESC", "[", "3", "2", "m">>)

C4_Witness == BoldRedGreenScenario /\ op = "line_as_ansi" /\ args.prefix_char = 0


\* An escape sequence lies in the contents of the buffer: every one of them
\* starts with ESC, which no cell text and no prefix character of the model is.
EscapeInOutput == \E i \in 1..ret.output.len : ret.output.buf[i] = Ord("ESC")

\* C11: line_as_ansi returns true if and only if at least one escape sequence
\* (OSC 133 prompt mark, OSC 8 hyperlink open or close, CSI SGR run, multi-cell
\* OSC prefix) was written to the output buffer during the call.
C11_ReturnsTrueIffEscapeWritten ==
    (op = "line_as_ansi") => (ret.escape_code_written <=> EscapeInOutput)

\* ------------------------------------------------------------------------
\* Specification SpecText: unicode_in_range and line_as_unicode
\* ------------------------------------------------------------------------

TextLen == 4

\* Entries 0..3: a base with a combining mark, a tab that skipped three
\* cells, a tab that skipped one cell, a glyph two cells wide.
TextCache ==
    Cache(<<CacheEntry(<<Ord("a"), 769>>, NoMcd),
            CacheEntry(<<Ord("\t"), 3>>, NoMcd),
            CacheEntry(<<Ord("\t"), 1>>, NoMcd),
            CacheEntry(<<Ord("x")>>, MultiCellData(2, 1, 0))>>)

TabCells ==
    {PlainCell(Ord("a")), PlainCell(Ord(" ")), PlainCell(0), IndexedCell(1), IndexedCell(2)}

\* Lines of TextLen cells that are letters, spaces, blanks and tabs.
TabLines ==
    {Line(cpu, DefaultGpu(cpu), "UNKNOWN_PROMPT_KIND") : cpu \in [1..TextLen -> TabCells]}

Wrapped(c, w) == [c EXCEPT !.next_char_was_wrapped = w]

\* Lines with combining marks, a tab without a count and a wide glyph, whose
\* last cell may carry the wrapped flag.
RichLines ==
    {Line(cpu \o <<Wrapped(last, w)>>, DefaultGpu(cpu \o <<last>>), "UNKNOWN_PROMPT_KIND") :
        cpu \in {<<IndexedCell(0), PlainCell(Ord("\t")), PlainCell(Ord(" "))>>,
                 <<MultiCell(3, 0, 0), MultiCell(3, 1, 0), IndexedCell(0)>>,
                 <<PlainCell(0), IndexedCell(1), PlainCell(Ord(" "))>>},
        last \in {PlainCell(Ord("b")), PlainCell(0), PlainCell(Ord(" "))},
        w \in BOOLEAN}

TextLines == TabLines \cup RichLines

InitText ==
    /\ line \in TextLines
    /\ text_cache = TextCache
    /\ flatbuf = NoFlatBuf
    /\ Idle

CallUnicodeInRange ==
    /\ pc = "idle"
    /\ \E start \in {0, 1, line.xnum}, limit \in {line.xnum - 1, line.xnum},
          include_cc \in BOOLEAN, add_trailing_newline \in BOOLEAN,
          skip_zero_cells \in BOOLEAN :
          /\ args' = [start |-> start, limit |-> limit, include_cc |-> include_cc,
                      add_trailing_newline |-> add_trailing_newline,
                      skip_zero_cells |-> skip_zero_cells]
          /\ \E r \in {unicode_in_range(line, text_cache, flatbuf, start, limit, include_cc,
                                        add_trailing_newline, skip_zero_cells)} :
                /\ ret' = [text |-> r.text]
                /\ flatbuf' = r.fb
    /\ pc' = "done"
    /\ op' = "unicode_in_range"
    /\ UNCHANGED <<line, text_cache>>

\* __str__ and the other callers of line_as_unicode.
CallLineAsUnicode ==
    /\ pc = "idle"
    /\ \E skip_zero_cells \in BOOLEAN :
          /\ args' = [start |-> 0, limit |-> xlimit_for_line(line), include_cc |-> TRUE,
                      add_trailing_newline |-> FALSE, skip_zero_cells |-> skip_zero_cells]
          /\ \E r \in {line_as_unicode(line, text_cache, flatbuf, skip_zero_cells)} :
                /\ ret' = [text |-> r.text]
                /\ flatbuf' = r.fb
    /\ pc' = "done"
    /\ op' = "line_as_unicode"
    /\ UNCHANGED <<line, text_cache>>

CleanupModule ==
    /\ pc = "idle"
    /\ flatbuf' = cleanup_module_buf
    /\ pc' = "done"
    /\ op' = "cleanup_module"
    /\ args' = <<>>
    /\ ret' = <<>>
    /\ UNCHANGED <<line, text_cache>>

NextText == CallUnicodeInRange \/ CallLineAsUnicode \/ CleanupModule \/ Return

SpecText == InitText /\ [][NextText]_vars

Flattened == op \in {"unicode_in_range", "line_as_unicode"}

\* Columns start..limit-1 of the call.
FlatRange == args.start .. (args.limit - 1)

IsTabCell(c) == text_in_cell(c, text_cache).chars[1] = Ord("\t")

IsSpaceCell(c) == c = PlainCell(Ord(" "))

\* The skip count a tab cell stores.
SkipCount(c) ==
    IF text_in_cell(c, text_cache).count > 1 THEN text_in_cell(c, text_cache).chars[2] ELSE 0

\* The number of space cells in a row from column i that lie before limit.
SpaceRun(i) ==
    CHOOSE n \in 0..Max(0, args.limit - i) :
        /\ \A j \in i..(i + n - 1) : IsSpaceCell(line.cpu_cells[j])
        /\ i + n >= args.limit \/ ~IsSpaceCell(line.cpu_cells[i + n])

\* The space cells the tabs of the range consume.
Consumed ==
    {j \in FlatRange : \E i \in FlatRange :
        /\ IsTabCell(line.cpu_cells[i])
        /\ i < j
        /\ j <= i + Min(SkipCount(line.cpu_cells[i]), SpaceRun(i + 1))}

CountOf(s, ch) == Cardinality({k \in 1..Len(s) : s[k] = ch})

TabScenario ==
    /\ Flattened
    /\ line.xnum = 4
    /\ args.start = 0 /\ args.limit = 4 /\ ~args.add_trailing_newline
    /\ line.cpu_cells[0] = IndexedCell(1)
    /\ \A i \in 1..3 : IsSpaceCell(line.cpu_cells[i])

\* C5 as stated: a tab cell with skip count 3 followed by three space cells
\* flattens to exactly four spaces, and no tab.
C5_TabScenarioFourSpaces ==
    TabScenario => ret.text = <<32, 32, 32, 32>>

\* C5: a tab cell with skip count 3 followed by three space cells flattens
\* to the single code point '\t'; in general every tab cell of the range is
\* emitted as one tab character and the space cells right after it, at most
\* as many as its skip count and only those before limit, emit nothing, while
\* every other space cell emits one space.
C5_TabKeptSpacesSkipped ==
    /\ TabScenario => ret.text = <<9>>
    /\ (Flattened /\ line \in TabLines) =>
          /\ CountOf(ret.text, 9)
                = Cardinality({i \in FlatRange : IsTabCell(line.cpu_cells[i])})
          /\ CountOf(ret.text, 32)
                = Cardinality({i \in FlatRange \ Consumed :
                        \/ IsSpaceCell(line.cpu_cells[i])
                        \/ line.cpu_cells[i] = PlainCell(0) /\ ~args.skip_zero_cells})
          /\ CountOf(ret.text, Ord("a"))
                = Cardinality({i \in FlatRange : line.cpu_cells[i] = PlainCell(Ord("a"))})
          /\ Len(ret.text) = CountOf(ret.text, 9) + CountOf(ret.text, 32)
                             + CountOf(ret.text, Ord("a")) + CountOf(ret.text, 10)

C5_Witness == TabScenario /\ pc = "done" /\ op = "unicode_in_range" /\ args.include_cc


LastCellWrapped == line.cpu_cells[line.xnum - 1].next_char_was_wrapped

\* C15: unicode_in_range with add_trailing_newline set, on a line whose last
\* cell is not wrapped, returns text that ends with one appended "\n", for
\* every range (an empty one too) and whatever the capacity of the flatten
\* buffer is; when the last cell is wrapped or the flag is not set, no "\n"
\* is appended.
C15_TrailingNewlineAppended ==
    (op = "unicode_in_range")
        => IF args.add_trailing_newline /\ ~LastCellWrapped
           THEN /\ Len(ret.text) >= 1
                /\ ret.text[Len(ret.text)] = Ord("\n")
                /\ CountOf(ret.text, Ord("\n")) = 1
           ELSE CountOf(ret.text, Ord("\n")) = 0

\* sizeof(char_type): the code points are the 4-byte units of PyUnicode_4BYTE_KIND.
CharTypeSize == 4

FlatBufStep ==
    /\ (op' # "cleanup_module") => flatbuf'.capacity >= flatbuf.capacity
    /\ (flatbuf'.capacity > flatbuf.capacity)
          => flatbuf'.capacity = Max(UnicodeBufMin, 2 * flatbuf.capacity)
    /\ flatbuf'.capacity * CharTypeSize <= flatbuf'.alloc

\* C17: the flatten buffer only grows until the teardown hook runs, each
\* growth sets its capacity to max(4096, 2 * old capacity) code points, and
\* the recorded capacity in code points never exceeds the number of code
\* points the allocation can hold.
C17_FlatBufGrowsWithinAllocation == [][FlatBufStep]_vars
\* ------------------------------------------------------------------------
\* Specification SpecCells: set_text, text_at, width and colors_for_cell
\* ------------------------------------------------------------------------

CellMaxItems == 2
SrcMaxLen == 2

\* Entries 0..3: a base with a combining mark, glyphs two and three cells
\* wide, a glyph of scale two.
CellCache ==
    Cache(<<CacheEntry(<<Ord("a"), 769>>, NoMcd),
            CacheEntry(<<Ord("x")>>, MultiCellData(2, 1, 0)),
            CacheEntry(<<Ord("y")>>, MultiCellData(3, 1, 0)),
            CacheEntry(<<Ord("z")>>, MultiCellData(1, 2, 0))>>)

\* One cell, all the cells of a glyph, or the lower row of the glyph of scale two.
GlyphItems ==
    {<<PlainCell(Ord("a"))>>, <<PlainCell(0)>>, <<IndexedCell(0)>>,
     <<MultiCell(1, 0, 0), MultiCell(1, 1, 0)>>,
     <<MultiCell(2, 0, 0), MultiCell(2, 1, 0), MultiCell(2, 2, 0)>>,
     <<MultiCell(3, 0, 1), MultiCell(3, 1, 1)>>}

\* The rendition of column i (1-based in the tuple): neighbours differ.
ColumnStyle(i) ==
    CASE i % 3 = 0 -> GPUCell(IndexedColor(i), 0, 0,
                              Attrs(FALSE, FALSE, FALSE, FALSE, FALSE, 0, 0))
      [] i % 3 = 1 -> GPUCell(TrueColor(1, 2, i), IndexedColor(i), 0,
                              Attrs(FALSE, FALSE, FALSE, TRUE, FALSE, 0, 0))
      [] OTHER     -> GPUCell(0, TrueColor(0, i, 0), 0,
                              Attrs(TRUE, FALSE, FALSE, FALSE, FALSE, 0, 0))

ColumnGpu(cpu) == [i \in 1..Len(cpu) |-> ColumnStyle(i)]

CellLines ==
    {Line(Flatten(items), ColumnGpu(Flatten(items)), "UNKNOWN_PROMPT_KIND") :
        items \in SeqsUpTo(GlyphItems, CellMaxItems)}

\* The strings set_text is given.
Sources == {SubSeq(<<Ord("b"), Ord("c"), Ord("d")>>, 1, n) : n \in 0..SrcMaxLen}

CursorStyle == Attrs(FALSE, FALSE, TRUE, FALSE, FALSE, 1, 2)

InitCells ==
    /\ line \in CellLines
    /\ text_cache = CellCache
    /\ flatbuf = NoFlatBuf
    /\ Idle

CallSetText ==
    /\ pc = "idle"
    /\ \E src \in Sources, offset \in {0, 1}, sz \in 0..SrcMaxLen, x \in 0..line.xnum :
          /\ args' = [src |-> src, offset |-> offset, sz |-> sz,
                      cursor |-> Cursor(x, IndexedColor(4), 0, 0, CursorStyle)]
          /\ \E r \in {set_text(line, src, offset, sz,
                                Cursor(x, IndexedColor(4), 0, 0, CursorStyle))} :
                /\ ret' = r.result
                /\ line' = r.line
    /\ pc' = "done"
    /\ op' = "set_text"
    /\ UNCHANGED <<text_cache, flatbuf>>

CallTextAt ==
    /\ pc = "idle"
    /\ \E x \in 0..line.xnum :
          /\ args' = [x |-> x]
          /\ ret' = text_at(line, text_cache, x)
    /\ pc' = "done"
    /\ op' = "text_at"
    /\ UNCHANGED <<line, text_cache, flatbuf>>

CallWidth ==
    /\ pc = "idle"
    /\ \E x \in 0..line.xnum :
          /\ args' = [x |-> x]
          /\ ret' = width(line, text_cache, x)
    /\ pc' = "done"
    /\ op' = "width"
    /\ UNCHANGED <<line, text_cache, flatbuf>>

CallColorsForCell ==
    /\ pc = "idle"
    /\ \E x \in 0..line.xnum, reversed \in BOOLEAN :
          /\ args' = [x |-> x, fg |-> 7, bg |-> 8, reversed |-> reversed]
          /\ ret' = colors_for_cell(line, ColorProfile, x, 7, 8, reversed)
    /\ pc' = "done"
    /\ op' = "colors_for_cell"
    /\ UNCHANGED <<line, text_cache, flatbuf>>

NextCells == CallSetText \/ CallTextAt \/ CallWidth \/ CallColorsForCell \/ Return

SpecCells == InitCells /\ [][NextCells]_vars

IsEmptyCell(c) == ~c.ch_is_idx /\ c.ch_or_idx = 0

IsContinuationCell(c) == c.is_multicell /\ (c.x # 0 \/ c.y # 0)

IsAnchorCell(c) == c.is_multicell /\ c.x = 0 /\ c.y = 0

\* The width a cell of each kind is said to have.
WidthOf(c) ==
    IF IsEmptyCell(c) \/ IsContinuationCell(c) THEN 0
    ELSE IF IsAnchorCell(c) THEN text_cache[c.ch_or_idx].mcd.width
    ELSE 1

\* C6: for every column x < xnum, width(x) returns an integer: 0 for an
\* empty cell or a continuation cell, the MultiCellData width for an anchor
\* cell, 1 otherwise; it fails only when x >= xnum.
C6_WidthReturnsInteger ==
    (op = "width" /\ pc = "done") =>
        /\ args.x < line.xnum =>
              (ret.status = "ok" /\ ret.value = WidthOf(line.cpu_cells[args.x]))
        /\ ret.status # "ok" => args.x >= line.xnum

\* The columns a successful set_text(s, 0, len(s), C) writes.
SetTextRange(a, xnum) == {i \in 0..(xnum - 1) : a.cursor.x <= i /\ i < a.cursor.x + Len(a.src)}

\* C9: after set_text(s, 0, len(s), C) succeeds, text_at(C.x + i) is exactly
\* the one code point s[i] for every i < len(s) with C.x + i < xnum, and the
\* CPU and GPU cells outside [C.x, min(C.x + len(s), xnum)) are unchanged.
C9_SetTextRoundTrip ==
    [][(op' = "set_text" /\ pc' = "done" /\ pc = "idle" /\ ret'.status = "ok"
        /\ args'.offset = 0 /\ args'.sz = Len(args'.src))
       => /\ \A i \in 0..(Len(args'.src) - 1) :
                args'.cursor.x + i < line'.xnum
                    => text_at(line', text_cache', args'.cursor.x + i)
                           = Ok(<<args'.src[i + 1]>>)
          /\ line'.xnum = line.xnum
          /\ \A col \in (0..(line.xnum - 1)) \ SetTextRange(args', line.xnum) :
                /\ line'.cpu_cells[col] = line.cpu_cells[col]
                /\ line'.gpu_cells[col] = line.gpu_cells[col]]_vars

\* set_text has replaced an indexed cell and a cell of a glyph, clipped at
\* the end of the line.
C9_Witness ==
    /\ op = "set_text" /\ pc = "done" /\ ret.status = "ok"
    /\ args.offset = 0 /\ args.sz = Len(args.src) /\ args.sz = SrcMaxLen
    /\ args.cursor.x = line.xnum - 1
    /\ line.cpu_cells[line.xnum - 1] = PlainCell(Ord("b"))
    /\ \E col \in 0..(line.xnum - 2) : IsContinuationCell(line.cpu_cells[col])

\* The column of the anchor of the glyph the cell at col belongs to.
AnchorColumn(col) == col - line.cpu_cells[col].x

\* The cells from the anchor column to col are the cells of one glyph, in order.
GlyphIntact(col) ==
    /\ AnchorColumn(col) >= 0
    /\ \A k \in AnchorColumn(col)..col :
          /\ line.cpu_cells[k].is_multicell
          /\ line.cpu_cells[k].ch_or_idx = line.cpu_cells[col].ch_or_idx
          /\ line.cpu_cells[k].y = line.cpu_cells[col].y
          /\ line.cpu_cells[k].x = k - AnchorColumn(col)

\* The cell at the anchor column of col is the first cell of the same glyph.
HasAnchor(col) ==
    /\ AnchorColumn(col) >= 0
    /\ line.cpu_cells[AnchorColumn(col)].is_multicell
    /\ line.cpu_cells[AnchorColumn(col)].x = 0
    /\ line.cpu_cells[AnchorColumn(col)].y = line.cpu_cells[col].y
    /\ line.cpu_cells[AnchorColumn(col)].ch_or_idx = line.cpu_cells[col].ch_or_idx

ColorsQueryAtContinuation ==
    /\ op = "colors_for_cell" /\ pc = "done"
    /\ args.x < line.xnum
    /\ IsContinuationCell(line.cpu_cells[args.x])
    /\ HasAnchor(args.x)

SameAsAtAnchor ==
    ret = colors_for_cell(line, ColorProfile, AnchorColumn(args.x),
                          args.fg, args.bg, args.reversed)

\* C10 as stated: for every multi-cell continuation cell, colors_for_cell
\* called at its column returns the same triple and column as called at the
\* column of its anchor.
C10_ContinuationSameAsAnchor ==
    ColorsQueryAtContinuation => SameAsAtAnchor

\* C10: for every multi-cell continuation cell whose glyph is intact between
\* its anchor column and its own column, colors_for_cell called at its
\* column returns the same triple as called at the anchor column, with *x
\* left at the anchor column and the colours read from the cell there.
C10_IntactContinuationSameAsAnchor ==
    (ColorsQueryAtContinuation /\ GlyphIntact(args.x)) =>
        /\ SameAsAtAnchor
        /\ ret.ok
        /\ ret.x = AnchorColumn(args.x)
        /\ ret.x < args.x \/ line.cpu_cells[args.x].x = 0
        /\ ret.reversed = (args.reversed \/ line.gpu_cells[ret.x].attrs.reverse)

\* The query was made two columns right of the anchor of an intact glyph
\* whose cells differ in their colours.
C10_Witness ==
    /\ ColorsQueryAtContinuation /\ GlyphIntact(args.x)
    /\ line.cpu_cells[args.x].x = 2
    /\ line.gpu_cells[args.x] # line.gpu_cells[AnchorColumn(args.x)]

\* ------------------------------------------------------------------------
\* Specification SpecMark: mark_text_in_line
\* ------------------------------------------------------------------------

MarkLen == 4
MaxMatches == 2

\* Entries 0..2: a base with a combining mark, a tab that skipped two cells,
\* a glyph two cells wide.
MarkCache ==
    Cache(<<CacheEntry(<<Ord("a"), 769>>, NoMcd),
            CacheEntry(<<Ord("\t"), 2>>, NoMcd),
            CacheEntry(<<Ord("x")>>, MultiCellData(2, 1, 0))>>)

MarkedGpu(cpu, mark) ==
    [i \in 1..Len(cpu) |-> [blank_cell EXCEPT !.attrs.mark = mark]]

\* Lines of MarkLen plain cells, and lines with a combining mark, a tab and
\* a glyph; every cell carries the mark an earlier marker left.
MarkLines ==
    {Line(cpu, MarkedGpu(cpu, mark), "UNKNOWN_PROMPT_KIND") :
        cpu \in [1..MarkLen -> {PlainCell(Ord("a")), PlainCell(0)}]
                \cup {<<IndexedCell(0), PlainCell(Ord("b")), PlainCell(0)>>,
                      <<IndexedCell(1), PlainCell(Ord(" ")), PlainCell(Ord(" ")),
                        PlainCell(Ord("b"))>>,
                      <<PlainCell(Ord("a")), MultiCell(2, 0, 0), MultiCell(2, 1, 0),
                        PlainCell(Ord("b"))>>},
        mark \in {0, 2}}

Match(l, r, col) == [l |-> l, r |-> r, col |-> col]

\* What a marker yields: up to MaxMatches triples, in any order.
Matches ==
    {<<>>} \cup SeqsUpTo({Match(l, r, col) : l \in 0..(MarkLen - 1), r \in 0..(MarkLen - 1),
                                             col \in {3, 5}}, MaxMatches)

Marker(failed, matches) == [failed |-> failed, matches |-> matches]

\* No marker, a marker whose call raises, and the markers that yield matches.
Markers == {<<>>, <<Marker(TRUE, <<>>)>>} \cup {<<Marker(FALSE, ms)>> : ms \in Matches}

InitMark ==
    /\ line \in MarkLines
    /\ text_cache = MarkCache
    /\ flatbuf = NoFlatBuf
    /\ Idle

CallMarkTextInLine ==
    /\ pc = "idle"
    /\ \E marker \in Markers :
        \E t \in {line_as_unicode(line, text_cache, flatbuf, FALSE)} :
          /\ args' = [marker |-> marker, text |-> t.text]
          /\ line' = mark_text_in_line(marker, line, text_cache, t.text)
          /\ flatbuf' = IF marker = <<>> THEN flatbuf ELSE t.fb
    /\ pc' = "done"
    /\ op' = "mark_text_in_line"
    /\ ret' = <<>>
    /\ UNCHANGED text_cache

NextMark == CallMarkTextInLine \/ Return

SpecMark == InitMark /\ [][NextMark]_vars

IsPlainLine ==
    \A x \in 0..(line.xnum - 1) :
        /\ ~line.cpu_cells[x].ch_is_idx
        /\ ~line.cpu_cells[x].is_multicell
        /\ line.cpu_cells[x].ch_or_idx # Ord("\t")

\* The matches lie in the flattened text, each after the one before.
AscendingMatches(ms, text) ==
    /\ \A i \in 1..Len(ms) : ms[i].l <= ms[i].r /\ ms[i].r < Len(text)
    /\ \A i \in 1..(Len(ms) - 1) : ms[i].r < ms[i + 1].l

MarkedPlainLine ==
    /\ op = "mark_text_in_line" /\ pc = "done"
    /\ args.marker # <<>>
    /\ ~args.marker[1].failed
    /\ IsPlainLine
    /\ Len(args.text) > 0
    /\ AscendingMatches(args.marker[1].matches, args.text)

\* C8: on a line of plain single-code-point cells with non-empty flattened
\* text, after mark_text_in_line with a marker that yields matches
\* (l_i, r_i, col_i) in ascending non-overlapping order, every cell x has
\* attrs.mark = col_i & MARK_MASK if l_i <= x <= r_i for some i and
\* attrs.mark = 0 otherwise, the cells after the last match included.
C8_MarksFollowMatches ==
    MarkedPlainLine =>
        \A x \in 0..(line.xnum - 1) :
            LET ms == args.marker[1].matches
                hit == {i \in 1..Len(ms) : ms[i].l <= x /\ x <= ms[i].r}
            IN  IF hit = {}
                THEN line.gpu_cells[x].attrs.mark = 0
                ELSE \A i \in hit : line.gpu_cells[x].attrs.mark = ms[i].col % 4

\* Two matches with a gap between them and cells after the last one.
C8_Witness ==
    /\ MarkedPlainLine
    /\ Len(args.marker[1].matches) = 2
    /\ args.marker[1].matches[1].r + 1 < args.marker[1].matches[2].l
    /\ args.marker[1].matches[2].r < line.xnum - 1
    /\ args.marker[1].matches[2].col # args.marker[1].matches[1].col

\* ------------------------------------------------------------------------
\* Specification SpecUrl: line_url_start_at and line_url_end_at
\* ------------------------------------------------------------------------

UrlEdits == 1

UrlCache == Cache(<<CacheEntry(<<Ord("a"), 769>>, NoMcd)>>)

\* A line given by its text; "~" stands for the cell with a combining mark
\* and "0" for the blank cell.
UrlCell(c) ==
    IF c = "~" THEN IndexedCell(0) ELSE IF c = "0" THEN PlainCell(0) ELSE PlainCell(Ord(c))

UrlCells == {UrlCell(c) : c \in {"h", "t", "p", ":", "/", " ", "[", ".", "~", "0"}}

UrlBases ==
    {[i \in 1..Len(t) |-> UrlCell(t[i])] :
        t \in {<<"h", "t", ":", "/", "/", "h", "h", "h", "h", "h">>,
               <<" ", "p", ":", "/", "/", "h", "~", "/", "h", ".">>,
               <<"h", " ", "h", "t", ":", "/", "/", "h", "h", ".", ".">>,
               <<"p", ":", "/", "/", "[", "h", "]", "/", "h", "h">>,
               <<"h", "h", "h", "h", "h", "h", "t", ":", "/", "/">>,
               <<"[", "h", "t", ":", "/", "/", "/", "h", "]", " ", "h">>,
               <<"h", "t", "p", ":", "/", "/", "p", ":", "/", "/", "h", "h">>,
               <<"p", ":", "/", "/", "h", "h", "h", "h">>}}

\* The sequences that differ from one of S in at most k cells.
RECURSIVE Edited(_, _)
Edited(S, k) ==
    IF k = 0 THEN S
    ELSE Edited(S \cup {[l EXCEPT ![i] = c] : l \in S, i \in 1..12, c \in UrlCells}, k - 1)

UrlLines ==
    {Line(cpu, DefaultGpu(cpu), "UNKNOWN_PROMPT_KIND") : cpu \in Edited(UrlBases, UrlEdits)}

InitUrl ==
    /\ line \in UrlLines
    /\ text_cache = UrlCache
    /\ flatbuf = NoFlatBuf
    /\ Idle

\* url_start_at(x)
CallUrlStartAt ==
    /\ pc = "idle"
    /\ \E x \in 0..line.xnum :
          /\ args' = [x |-> x]
          /\ ret' = line_url_start_at(line, text_cache, x)
    /\ pc' = "done"
    /\ op' = "line_url_start_at"
    /\ UNCHANGED <<line, text_cache, flatbuf>>

\* line_url_end_at as the screen calls it and as url_end_at(x, sentinel,
\* next_line_starts_with_url_chars) does (in_hostname false).
CallUrlEndAt ==
    /\ pc = "idle"
    /\ \E x \in 0..line.xnum, sentinel \in {0, Ord(")"), Ord("h")},
          next_line_starts_with_url_chars \in BOOLEAN, in_hostname \in BOOLEAN :
          /\ args' = [x |-> x, check_short |-> TRUE, sentinel |-> sentinel,
                      next_line_starts_with_url_chars |-> next_line_starts_with_url_chars,
                      in_hostname |-> in_hostname, last_hostname_char_pos |-> line.xnum]
          /\ ret' = line_url_end_at(line, text_cache, x, TRUE, sentinel,
                                    next_line_starts_with_url_chars, in_hostname, line.xnum)
    /\ pc' = "done"
    /\ op' = "line_url_end_at"
    /\ UNCHANGED <<line, text_cache, flatbuf>>

NextUrl == CallUrlStartAt \/ CallUrlEndAt \/ Return

SpecUrl == InitUrl /\ [][NextUrl]_vars

\* line_url_end_at was called at a column that line_url_start_at returns
\* as the start of a URL.
EndAtUrlStart ==
    /\ op = "line_url_end_at" /\ pc = "done"
    /\ args.x < line.xnum
    /\ \E x \in 0..(line.xnum - 1) : line_url_start_at(line, text_cache, x) = args.x

\* The cell at column j is valid in a URL for the call.
UrlValidAt(j) ==
    IF args.in_hostname /\ j <= args.last_hostname_char_pos
    THEN is_hostname_lc(text_in_cell(line.cpu_cells[j], text_cache))
    ELSE is_url_lc(text_in_cell(line.cpu_cells[j], text_cache))

\* The cells s..end are a configured prefix, "://" and URL characters.
UrlSpelled(s, end) ==
    \E k \in 1..Len(url_prefixes) :
        /\ end >= s + Len(url_prefixes[k]) + 2
        /\ \A i \in 1..Len(url_prefixes[k]) :
              line.cpu_cells[s + i - 1] = PlainCell(url_prefixes[k][i])
        /\ line.cpu_cells[s + Len(url_prefixes[k])] = PlainCell(Ord(":"))
        /\ line.cpu_cells[s + Len(url_prefixes[k]) + 1] = PlainCell(Ord("/"))
        /\ line.cpu_cells[s + Len(url_prefixes[k]) + 2] = PlainCell(Ord("/"))
        /\ \A j \in (s + Len(url_prefixes[k]) + 3)..end : UrlValidAt(j)

StartInRange ==
    (op = "line_url_start_at" /\ pc = "done") => (ret \in 0..line.xnum)

SentinelOutsidePrefix ==
    \A j \in args.x..Min(line.xnum - 1, args.x + max_prefix_len + 2) :
        ~(args.sentinel # 0 /\ cell_is_char(line.cpu_cells[j], args.sentinel)
          /\ \E k \in 1..Len(url_prefixes) :
                /\ j <= args.x + Len(url_prefixes[k]) + 2
                /\ prefix_matches(line, args.x + Len(url_prefixes[k]), url_prefixes[k]))

C20_UrlStartSameFromEveryColumn ==
    (op = "line_url_start_at" /\ pc = "done" /\ ret < line.xnum)
        => /\ ret <= args.x
           /\ \A xp \in ret..args.x : line_url_start_at(line, text_cache, xp) = ret

\* ------------------------------------------------------------------------
\* Specification SpecAsText: as_text_generic over containers of short lines
\* ------------------------------------------------------------------------

MaxLines == 3

LinkedCell(ch, hid, w) == CPUCell(ch, FALSE, FALSE, 0, 0, hid, w)

\* Lines of two cells: blank, plain, linked, styled, with a prompt mark; the
\* last cell of some carries the wrapped flag.
AsTextLines ==
    {Line(<<PlainCell(0), Wrapped(PlainCell(0), w)>>, <<blank_cell, blank_cell>>, k) :
        w \in BOOLEAN, k \in {"UNKNOWN_PROMPT_KIND", "PROMPT_START"}}
    \cup {Line(<<LinkedCell(Ord("x"), h1, FALSE), LinkedCell(Ord("x"), h2, w)>>,
               <<blank_cell, blank_cell>>, "UNKNOWN_PROMPT_KIND") :
            h1 \in {0, 7}, h2 \in {0, 7}, w \in BOOLEAN}
    \cup {Line(<<PlainCell(Ord("a")), PlainCell(0)>>,
               <<BoldCell(0), blank_cell>>, "UNKNOWN_PROMPT_KIND")}

\* Containers of at most MaxLines lines; the empty one too.
Containers == {<<>>} \cup SeqsUpTo(AsTextLines, MaxLines)

InitAsText ==
    /\ line = NoLine
    /\ text_cache = AnsiCache
    /\ flatbuf = NoFlatBuf
    /\ Idle

\* as_text_generic on a container: lines may be less than the lines the
\* container holds, or more; the sink raises at its fail_at-th call (0: never);
\* the caller's ANSI buffer comes with a hyperlink left active by an earlier use.
CallAsTextGeneric ==
    /\ pc = "idle"
    /\ \E container \in Containers, lines \in {MaxLines - 1, MaxLines}, mode \in {"text", "ansi", "ansi_links"}, insert_wrap_markers \in BOOLEAN, add_trailing_newline \in BOOLEAN, fail_at \in {0, 3} :
          /\ args' = [container |-> container, lines |-> lines, as_ansi |-> (mode # "text"),
                      insert_wrap_markers |-> insert_wrap_markers,
                      add_trailing_newline |-> add_trailing_newline, fail_at |-> fail_at]
          /\ \E r \in {as_text_generic(container, text_cache, lines,
                          ANSIBuf(<<>>, 0, IF mode = "ansi_links" THEN 7 ELSE 0,
                                  IF mode = "ansi_links" THEN AnsiPool ELSE NullPool),
                          flatbuf, mode # "text", insert_wrap_markers, add_trailing_newline,
                          fail_at)} :
                /\ ret' = [status |-> r.status, sink |-> r.sink, ansibuf |-> r.ansibuf]
                /\ flatbuf' = r.fb
    /\ pc' = "done"
    /\ op' = "as_text_generic"
    /\ UNCHANGED <<line, text_cache>>

NextAsText == CallAsTextGeneric \/ Return

SpecAsText == InitAsText /\ [][NextAsText]_vars

AsTextOk == op = "as_text_generic" /\ ret.status = "ok"

\* The number of lines a call that returned None fetched.
Fetched == Min(args.lines, Len(args.container))

\* Line y of the container.
Fetch(y) == args.container[y + 1]

\* The indices of the fragments handed to the sink at loop index y, and the
\* first and the last of them.
FragsAt(y) == {i \in 1..Len(ret.sink) : ret.sink[i].y = y}

FirstFragAt(y) == CHOOSE i \in FragsAt(y) : \A j \in FragsAt(y) : i <= j

LastFragAt(y) == CHOOSE i \in FragsAt(y) : \A j \in FragsAt(y) : j <= i

\* The index of the text fragment of line y: the last of the line, or the one
\* before the wrap marker.
TextFragAt(y) == IF args.insert_wrap_markers THEN LastFragAt(y) - 1 ELSE LastFragAt(y)

ResetBefore(i) == i > 1 /\ ret.sink[i - 1].text = sgr_reset /\ ret.sink[i - 1].y = ret.sink[i].y

LastNotWrapped(y) == ~Fetch(y).cpu_cells[Fetch(y).xnum - 1].next_char_was_wrapped

\* C13: a "\n" fragment is delivered before the content of line y (y >= 1)
\* if and only if the last cell of line y-1 is not wrapped; none precedes
\* line 0; after the last line a final "\n" is delivered if and only if
\* add_trailing_newline is set and the last cell of the last line is not
\* wrapped.
C13_NewlineIffNotWrapped ==
    AsTextOk
        => /\ \A y \in 0..(Fetched - 1) :
                 /\ (ret.sink[FirstFragAt(y)].text = nl) <=> (y >= 1 /\ LastNotWrapped(y - 1))
                 /\ \A i \in FragsAt(y) \ {FirstFragAt(y)} : ret.sink[i].text # nl
           /\ (\E i \in FragsAt(Fetched) : ret.sink[i].text = nl)
                 <=> (args.add_trailing_newline /\ Fetched >= 1 /\ LastNotWrapped(Fetched - 1))

C13_Witness ==
    /\ AsTextOk /\ Fetched = 3 /\ args.add_trailing_newline
    /\ ~LastNotWrapped(0) /\ LastNotWrapped(1) /\ LastNotWrapped(2)
    /\ ret.sink[FirstFragAt(1)].text # nl
    /\ ret.sink[FirstFragAt(2)].text = nl
    /\ ret.sink[Len(ret.sink)].text = nl

\* The fragments 1..n of the sink, joined.
Stream(n) == Flatten([i \in 1..n |-> ret.sink[i].text])

\* The last OSC 8 sequence of s opens a hyperlink.
LastOsc8IsOpen(s) ==
    \E p \in Occurrences(s, Osc8Intro) :
        /\ \A q \in Occurrences(s, Osc8Intro) : q <= p
        /\ ~OccursAt(s, Osc8Close, p)

\* The number of fragments handed over inside the loop.
LoopFrags == Cardinality({i \in 1..Len(ret.sink) : ret.sink[i].y < Fetched})

\* C14: when as_text_generic returns successfully, every OSC 8 open handed
\* to the sink is followed by an OSC 8 close or another open; if a hyperlink
\* is still active after the last line, ESC ] 8 ; ; ESC \ is the final
\* fragment; ansibuf.active_hyperlink_id is 0 on return.
C14_HyperlinkClosedOnReturn ==
    AsTextOk
        => /\ ret.ansibuf.active_hyperlink_id = 0
           /\ ~LastOsc8IsOpen(Stream(Len(ret.sink)))
           /\ LastOsc8IsOpen(Stream(LoopFrags))
                 => ret.sink[Len(ret.sink)].text = hyperlink_close

C14_Witness ==
    /\ AsTextOk /\ Fetched = 2
    /\ LastOsc8IsOpen(Stream(LoopFrags))
    /\ ret.sink[Len(ret.sink)].text = hyperlink_close
    /\ ret.ansibuf.active_hyperlink_id = 0

\* ------------------------------------------------------------------------
\* Specification SpecCombine: add_combining_char and text_at
\* ------------------------------------------------------------------------

MaxChars == 3

InitCombine ==
    /\ line \in CellLines
    /\ text_cache = CellCache
    /\ flatbuf = NoFlatBuf
    /\ Idle

\* add_combining_char(x, ch), while the text of the cell has fewer than
\* MaxChars code points.
CallAddCombiningChar ==
    /\ pc = "idle"
    /\ \E x \in 0..line.xnum, ch \in {769, 770} :
          /\ x < line.xnum => text_in_cell(line.cpu_cells[x], text_cache).count < MaxChars
          /\ args' = [x |-> x, ch |-> ch, line |-> line, text_cache |-> text_cache]
          /\ \E r \in {add_combining_char(line, text_cache, x, ch)} :
                /\ ret' = r.result
                /\ line' = r.line
                /\ text_cache' = r.tc
    /\ pc' = "done"
    /\ op' = "add_combining_char"
    /\ UNCHANGED flatbuf

CallTextAtCombined ==
    /\ pc = "idle"
    /\ \E x \in 0..(line.xnum - 1) :
          /\ args' = [x |-> x]
          /\ ret' = text_at(line, text_cache, x)
    /\ pc' = "done"
    /\ op' = "text_at"
    /\ UNCHANGED <<line, text_cache, flatbuf>>

NextCombine == CallAddCombiningChar \/ CallTextAtCombined \/ Return

SpecCombine == InitCombine /\ [][NextCombine]_vars

AddedCombiningChar == op = "add_combining_char"

\* The cell the call was made on, before the call.
CellBefore == args.line.cpu_cells[args.x]

\* The call succeeded: the cell is cache-indexed, its text is the text it had
\* followed by ch, and nothing else of the line changed.
CombinedAt ==
    /\ ret = Ok(<<>>)
    /\ line.cpu_cells[args.x].ch_is_idx
    /\ text_cache[line.cpu_cells[args.x].ch_or_idx].chars
          = text_in_cell(CellBefore, args.text_cache).chars \o <<args.ch>>
    /\ \A i \in 0..(line.xnum - 1) : i # args.x => line.cpu_cells[i] = args.line.cpu_cells[i]
    /\ line.gpu_cells = args.line.gpu_cells

\* C16 as stated: add_combining_char(x, ch) fails if and only if x >= xnum
\* (value error) or the cell at x is a multi-cell continuation (index
\* error), and a failing call leaves the line unchanged; in every other case,
\* a multi-cell anchor included, it succeeds and the cell becomes
\* cache-indexed with its previous code points followed by ch.
C16_FailsOnlyOnContinuation ==
    AddedCombiningChar
        => IF args.x >= args.line.xnum THEN ret = Raise("ValueError") /\ line = args.line
           ELSE IF IsContinuationCell(CellBefore)
                THEN ret = Raise("IndexError") /\ line = args.line
           ELSE CombinedAt

\* C16 amended: add_combining_char(x, ch) fails if and only if x >= xnum
\* (value error) or the cell at x is a cell of a multi-cell glyph, anchor or
\* continuation (index error), and a failing call leaves the line and the
\* text cache unchanged; in every other case it succeeds and the cell becomes
\* cache-indexed with its previous code points followed by ch.
C16_FailsOnAnyMulticell ==
    AddedCombiningChar
        => IF args.x >= args.line.xnum
           THEN ret = Raise("ValueError") /\ line = args.line /\ text_cache = args.text_cache
           ELSE IF CellBefore.is_multicell
                THEN /\ ret = Raise("IndexError")
                     /\ line = args.line /\ text_cache = args.text_cache
           ELSE CombinedAt

\* A second mark was added to a cell that was cache-indexed, on a line that
\* has a glyph.
C16_Witness ==
    /\ AddedCombiningChar
    /\ args.x < args.line.xnum
    /\ CellBefore.ch_is_idx /\ ~CellBefore.is_multicell
    /\ \E i \in 0..(line.xnum - 1) : IsAnchorCell(line.cpu_cells[i])
    /\ CombinedAt
    /\ Len(text_cache[line.cpu_cells[args.x].ch_or_idx].chars) = 3

\* ------------------------------------------------------------------------
\* Specification SpecClear: clear_text and apply_cursor
\* ------------------------------------------------------------------------

ClearLen == 3

\* Lines of ClearLen cells, letters and blanks, with the styles of CellLines.
ClearLines ==
    {Line(cpu, ColumnGpu(cpu), "UNKNOWN_PROMPT_KIND") :
        cpu \in [1..ClearLen -> {PlainCell(Ord("a")), PlainCell(0), IndexedCell(0)}]}

\* Values of an unsigned int argument: small ones, and the two largest.
Unsigneds == {U32(0, n) : n \in 0..(ClearLen + 1)} \cup {U32(HalfWord - 1, HalfWord - 2), U32(HalfWord - 1, HalfWord - 1)}

InitClear ==
    /\ line \in ClearLines
    /\ text_cache = CellCache
    /\ flatbuf = NoFlatBuf
    /\ Idle

\* How a call that wrote outside the cell arrays may end: it returns with
\* other memory of the process overwritten, or the process is killed.
Outcomes(outside) == IF outside THEN {"corrupted", "crashed"} ELSE {"ok"}

CallClearText ==
    /\ pc = "idle"
    /\ \E at \in Unsigneds, num \in Unsigneds, ch \in {0, Ord("b")} :
          /\ args' = [at |-> at, num |-> num, ch |-> ch, clear_char |-> TRUE, line |-> line]
          /\ \E r \in {line_clear_text(line, at, num, ch)} :
                /\ line' = r.line
                /\ \E outcome \in Outcomes(r.outside) :
                      /\ ret' = [status |-> outcome, outside |-> r.outside]
                      /\ pc' = IF outcome = "crashed" THEN "crashed" ELSE "done"
    /\ op' = "clear_text"
    /\ UNCHANGED <<text_cache, flatbuf>>

CallApplyCursor ==
    /\ pc = "idle"
    /\ \E at \in Unsigneds, num \in Unsigneds, clear_char \in BOOLEAN :
          /\ args' = [at |-> at, num |-> num, ch |-> 0, clear_char |-> clear_char, line |-> line]
          /\ \E r \in {line_apply_cursor(line, Cursor(0, IndexedColor(4), 0, 0, CursorStyle),
                                         at, num, clear_char)} :
                /\ line' = r.line
                /\ \E outcome \in Outcomes(r.outside) :
                      /\ ret' = [status |-> outcome, outside |-> r.outside]
                      /\ pc' = IF outcome = "crashed" THEN "crashed" ELSE "done"
    /\ op' = "apply_cursor"
    /\ UNCHANGED <<text_cache, flatbuf>>

NextClear == CallClearText \/ CallApplyCursor \/ Return

SpecClear == InitClear /\ [][NextClear]_vars

\* Column i lies in [at, at + num), the sum taken without wrapping.
InCallRange(i) == in_range(i, args.at, args.num)

\* C19: for all 32-bit values of at and num, clear_text(at, num, ch) and
\* apply_cursor(cursor, at, num, clear_char = true) change only cells whose
\* index lies in [at, at + num) and in [0, xnum), and write no memory outside
\* the cell arrays of the line, also when at + num wraps around modulo 2^32
\* or at > xnum.
C19_ClearStaysInRange ==
    (op \in {"clear_text", "apply_cursor"} /\ args.clear_char)
        => /\ ~ret.outside
           /\ \A i \in 0..(line.xnum - 1) :
                 (line.cpu_cells[i] # args.line.cpu_cells[i]
                  \/ line.gpu_cells[i] # args.line.gpu_cells[i]) => InCallRange(i)

====
